---- MODULE Spec2Model ----
(***************************************************************************)
(* A model of services/network_analyzer.py (ContentNetworkAnalyzer): the   *)
(* similarity network of a list of video documents, the ranking of its     *)
(* central nodes, its clusters, and the topic evolution / trend analysis.  *)
(*                                                                         *)
(* Numbers.  Similarities are kept in tenths, rounded down (0..10), so the *)
(* threshold 0.3 is 3 and "similarity >= threshold" is exact.  Idf weights *)
(* are kept in tenths.  Centrality scores of one graph are kept on one     *)
(* common integer scale, so comparing two scores is exact.                 *)
(***************************************************************************)
EXTENDS Integers, Sequences, FiniteSets, TLC

\* ------------------------------------------------------------------ bounds
MaxDocs == 3          \* longest document list given to an entry point
MaxNodes == 4         \* longest id list given to _create_graph directly
MaxSentences == 4     \* most sentences of a text given to _extract_key_sentences directly

\* -------------------------------------------------------- python values
NoKey == "<no key>"   \* the dictionary has no such key
None == "<None>"      \* Python's None (dict.get without default, key absent)
EmptyStr == ""        \* the default of v.get('id', '')

\* ---------------------------------------------------------- generic folds
\* the sum of f[x] over x in S
RECURSIVE SumFn(_, _)
SumFn(f, S) ==
    IF S = {} THEN 0
    ELSE LET x == CHOOSE y \in S : TRUE IN f[x] + SumFn(f, S \ {x})

RECURSIVE SumSeq(_)
SumSeq(s) == IF s = <<>> THEN 0 ELSE Head(s) + SumSeq(Tail(s))

Range(s) == {s[i] : i \in 1..Len(s)}

Min(a, b) == IF a <= b THEN a ELSE b

\* The sequences over S of length lo..hi.
SeqsOf(S, lo, hi) == UNION {[1..n -> S] : n \in lo..hi}

\* ----------------------------------------------------------- configuration
\* __init__(self, similarity_threshold=0.3), in tenths
similarity_threshold == 3
\* TfidfVectorizer(stop_words='english', min_df=2, max_df=0.9, ngram_range=(1, 2))
min_df == 2
max_df_tenths == 9
StopWords == {"the"}

\* ------------------------------------------------------------- _preprocess_text
\* A raw transcript is absent, a non-string truthy value, or a string, given as
\* the sequence of its whitespace-separated raw tokens.
TokenLower(w) == IF w = "T1" THEN "t1" ELSE w
\* tokens that the three re.sub calls turn into blanks: URLs, digits, punctuation
TokenErased(w) == w \in {"7", "http://u", "!"}

PreprocessRaises(t) == t.k = "nonstr"       \* text.lower() on a non-string

PreprocessText(t) ==
    IF t.k # "str" \/ t.toks = <<>> THEN <<>>
    ELSE LET low == [i \in 1..Len(t.toks) |-> TokenLower(t.toks[i])]
             Kept(w) == ~TokenErased(w)
         IN SelectSeq(low, Kept)

\* ------------------------------------------------------------ TfidfVectorizer
\* The analyzer: stop words removed, then unigrams followed by bigrams.  A
\* feature is the tuple of its one or two tokens.
Analyze(text) ==
    LET NotStop(w) == w \notin StopWords
        ws == SelectSeq(text, NotStop)
    IN [i \in 1..Len(ws) |-> <<ws[i]>>]
       \o [i \in 1..(Len(ws) - 1) |-> <<ws[i], ws[i + 1]>>]

TermCount(text, f) ==
    LET fs == Analyze(text) IN Cardinality({i \in 1..Len(fs) : fs[i] = f})

DocFreq(texts, f) ==
    Cardinality({i \in 1..Len(texts) : TermCount(texts[i], f) > 0})

AllFeatures(texts) == UNION {Range(Analyze(texts[i])) : i \in 1..Len(texts)}

\* smooth idf = ln((1 + n) / (1 + df)) + 1, in tenths (rounded)
Idf10(n, df) ==
    CASE n = df -> 10
      [] n = 3 /\ df = 2 -> 13
      [] n = 4 /\ df = 2 -> 15
      [] n = 4 /\ df = 3 -> 12
      [] n = 5 /\ df = 2 -> 17
      [] n = 5 /\ df = 3 -> 14
      [] n = 5 /\ df = 4 -> 12
      [] OTHER -> 10 + 2 * (n - df)

\* The fixed alphabetical column order of the features.
FeatureRank(f) ==
    CASE f = <<"t1">> -> 1
      [] f = <<"t1", "t1">> -> 2
      [] f = <<"t1", "t2">> -> 3
      [] f = <<"t2">> -> 4
      [] f = <<"t2", "t1">> -> 5
      [] f = <<"t2", "t2">> -> 6
      [] OTHER -> 7

\* the k-th column (1-based) of a vocabulary
Column(vocab, k) ==
    CHOOSE f \in vocab : Cardinality({g \in vocab : FeatureRank(g) < FeatureRank(f)}) = k - 1

Unfitted == [fitted |-> FALSE, vocabulary |-> {}, idf |-> <<>>]

\* CountVectorizer.fit_transform + TfidfTransformer.fit: the pruned vocabulary
\* and the idf vector (by column), or a ValueError (ok = FALSE).
VectorizerFitWith(texts, mindf) ==
    LET n == Len(texts)
        all == AllFeatures(texts)
        vocab == {f \in all : DocFreq(texts, f) >= mindf
                               /\ 10 * DocFreq(texts, f) <= max_df_tenths * n}
    IN IF all = {} \/ max_df_tenths * n < 10 * mindf \/ vocab = {}
       THEN [ok |-> FALSE, state |-> Unfitted]
       ELSE [ok |-> TRUE,
             state |-> [fitted |-> TRUE, vocabulary |-> vocab,
                        idf |-> [k \in 1..Cardinality(vocab) |->
                                    Idf10(n, DocFreq(texts, Column(vocab, k)))]]]

\* self.vectorizer.fit_transform's fitting half (line 215)
VectorizerFit(texts) == VectorizerFitWith(texts, min_df)

\* TfidfTransformer.transform of the caller's own count matrix (columns: the
\* caller's own vocabulary `own`) with the idf vector the vectorizer holds now.
\* A length mismatch is a ValueError.
TransformRaises(own, held) == Cardinality(own.vocabulary) # Len(held.idf)

TfidfWeight(own, held, text, k) == TermCount(text, Column(own.vocabulary, k)) * held.idf[k]

\* cosine_similarity of rows i and j, in tenths rounded down; a zero row is
\* similar to nothing.
Cosine10(own, held, texts, i, j) ==
    LET cols == 1..Cardinality(own.vocabulary)
        wi == [k \in cols |-> TfidfWeight(own, held, texts[i], k)]
        wj == [k \in cols |-> TfidfWeight(own, held, texts[j], k)]
        dot == SumFn([k \in cols |-> wi[k] * wj[k]], cols)
        ni == SumFn([k \in cols |-> wi[k] * wi[k]], cols)
        nj == SumFn([k \in cols |-> wj[k] * wj[k]], cols)
    IN IF ni = 0 \/ nj = 0 THEN 0
       ELSE CHOOSE p \in 0..10 :
              /\ p * p * ni * nj <= 100 * dot * dot
              /\ (p = 10 \/ (p + 1) * (p + 1) * ni * nj > 100 * dot * dot)

\* np.ones in the place of np.zeros
OnesMatrix(n) == [i \in 1..n |-> [j \in 1..n |-> 10]]

ZeroMatrix(n) == [i \in 1..n |-> [j \in 1..n |-> 0]]

\* ---------------------------------------------------- _calculate_similarity_matrix
ValidIndices(texts) == {i \in 1..Len(texts) : texts[i] # <<>>}

\* valid_texts: the non-empty texts, in order
ValidTexts(texts) == LET NonEmpty(t) == t # <<>> IN SelectSeq(texts, NonEmpty)

\* position of original index i among the valid indices
ValidPos(texts, i) == Cardinality({k \in ValidIndices(texts) : k <= i})

\* lines 220-226 starting from the identity matrix: an empty text is similar
\* to itself
FullSimilarityFromIdentity(own, held, texts) ==
    LET valid == ValidTexts(texts)
    IN [i \in 1..Len(texts) |-> [j \in 1..Len(texts) |->
          IF i \in ValidIndices(texts) /\ j \in ValidIndices(texts)
          THEN Cosine10(own, held, valid, ValidPos(texts, i), ValidPos(texts, j))
          ELSE IF i = j THEN 10 ELSE 0]]

\* lines 220-226: the valid similarities placed at the original indices
FullSimilarity(own, held, texts) ==
    LET valid == ValidTexts(texts)
    IN [i \in 1..Len(texts) |-> [j \in 1..Len(texts) |->
          IF i \in ValidIndices(texts) /\ j \in ValidIndices(texts)
          THEN Cosine10(own, held, valid, ValidPos(texts, i), ValidPos(texts, j))
          ELSE 0]]

\* The whole function when no other call touches self.vectorizer: the matrix
\* and the state the vectorizer is left in.
CalculateSimilarityMatrix(texts, held) ==
    IF ValidIndices(texts) = {}
    THEN [matrix |-> ZeroMatrix(Len(texts)), vectorizer |-> held]
    ELSE LET fit == VectorizerFit(ValidTexts(texts))
         IN IF ~fit.ok
            THEN [matrix |-> ZeroMatrix(Len(texts)), vectorizer |-> held]
            ELSE [matrix |-> FullSimilarity(fit.state, fit.state, texts),
                  vectorizer |-> fit.state]

\* -------------------------------------------------------------- documents
\* v.get('id', ''): lines 48, 110
GetIdOrEmpty(v) == IF v.id = NoKey THEN EmptyStr ELSE v.id
\* v.get('id'): lines 366, 404, 477
GetId(v) == IF v.id = NoKey THEN None ELSE v.id

\* next((v for v in videos if v.get('id') == video_id), None) finds a video
HasVideo(vs, video_id) == \E i \in 1..Len(vs) : GetId(vs[i]) = video_id

\* ------------------------------------------------------------ _create_graph
\* A graph is its nodes in insertion order and the weight of each edge; an
\* edge is the set of its endpoints (one element: a self-loop).
EmptyGraph == [nodes |-> <<>>, w |-> <<>>]

\* G.add_node: a node already present keeps its place
AddNode(G, v) ==
    IF v \in Range(G.nodes) THEN G ELSE [G EXCEPT !.nodes = Append(G.nodes, v)]

\* G.add_edge(u, v, weight=x): the edge's weight is set, also when it exists
AddEdge(G, u, v, x) ==
    [G EXCEPT !.w = [e \in (DOMAIN G.w) \cup {{u, v}} |->
                        IF e = {u, v} THEN x ELSE G.w[e]]]

RECURSIVE AddNodes(_, _, _)
AddNodes(G, ids, i) ==
    IF i > Len(ids) THEN G ELSE AddNodes(AddNode(G, ids[i]), ids, i + 1)

\* the loops of lines 241-245 with line 244 as `similarity > threshold`
RECURSIVE AddEdgesAboveThreshold(_, _, _, _, _)
AddEdgesAboveThreshold(G, matrix, ids, i, j) ==
    IF i > Len(ids) THEN G
    ELSE IF j > Len(ids) THEN AddEdgesAboveThreshold(G, matrix, ids, i + 1, i + 2)
    ELSE AddEdgesAboveThreshold(IF matrix[i][j] > similarity_threshold
                                THEN AddEdge(G, ids[i], ids[j], matrix[i][j])
                                ELSE G,
                                matrix, ids, i, j + 1)

\* the loops of lines 241-245 with line 242 as `range(i, len(video_ids))`
RECURSIVE AddEdgesFromDiagonal(_, _, _, _, _)
AddEdgesFromDiagonal(G, matrix, ids, i, j) ==
    IF i > Len(ids) THEN G
    ELSE IF j > Len(ids) THEN AddEdgesFromDiagonal(G, matrix, ids, i + 1, i + 1)
    ELSE AddEdgesFromDiagonal(IF matrix[i][j] >= similarity_threshold
                              THEN AddEdge(G, ids[i], ids[j], matrix[i][j])
                              ELSE G,
                              matrix, ids, i, j + 1)

\* the loops of lines 241-245, from pair (i, j) on
RECURSIVE AddEdges(_, _, _, _, _)
AddEdges(G, matrix, ids, i, j) ==
    IF i > Len(ids) THEN G
    ELSE IF j > Len(ids) THEN AddEdges(G, matrix, ids, i + 1, i + 2)
    ELSE AddEdges(IF matrix[i][j] >= similarity_threshold
                  THEN AddEdge(G, ids[i], ids[j], matrix[i][j])
                  ELSE G,
                  matrix, ids, i, j + 1)

CreateGraph(matrix, ids) == AddEdges(AddNodes(EmptyGraph, ids, 1), matrix, ids, 1, 2)

Nodes(G) == Range(G.nodes)
Edges(G) == DOMAIN G.w
NumberOfNodes(G) == Len(G.nodes)
NumberOfEdges(G) == Cardinality(Edges(G))
IsSelfLoop(e) == Cardinality(e) = 1

\* position of a node in G.nodes()
NodeIndex(G, v) == CHOOSE i \in 1..Len(G.nodes) : G.nodes[i] = v

\* the neighbours other than the node itself
Neighbors(G, v) == {u \in Nodes(G) \ {v} : {u, v} \in Edges(G)}

\* G.degree(v): a self-loop counts twice
Degree(G, v) == Cardinality(Neighbors(G, v)) + (IF {v} \in Edges(G) THEN 2 ELSE 0)

\* ------------------------------------------------------ shortest paths (BFS)
Unreachable == 0 - 1

RECURSIVE BfsDist(_, _, _, _, _)
BfsDist(G, frontier, seen, t, d) ==
    IF t \in frontier THEN d
    ELSE IF frontier = {} THEN Unreachable
    ELSE LET nxt == (UNION {Neighbors(G, u) : u \in frontier}) \ seen
         IN BfsDist(G, nxt, seen \cup nxt, t, d + 1)

Dist(G, s, t) == BfsDist(G, {s}, {s}, t, 0)

\* the number of shortest paths from s to t (t reachable from s)
RECURSIVE Sigma(_, _, _)
Sigma(G, s, t) ==
    IF s = t THEN 1
    ELSE LET prev == {u \in Neighbors(G, t) : Dist(G, s, u) = Dist(G, s, t) - 1}
         IN SumFn([u \in prev |-> Sigma(G, s, u)], prev)

\* ---------------------------------------------------- networkx centralities
\* Scores of one graph of n nodes are integers on the scale
\* CentralityScale(n): value = integer / CentralityScale(n).
PathScale == 12
CentralityScale(n) == IF n >= 3 THEN PathScale * (n - 1) * (n - 2) ELSE PathScale

\* nx.degree_centrality: degree / (n - 1); 1 for a graph of one node
DegreeCentrality(G, v) ==
    LET n == NumberOfNodes(G)
    IN IF n <= 1 THEN CentralityScale(n)
       ELSE (Degree(G, v) * CentralityScale(n)) \div (n - 1)

\* the sum over the unordered pairs {s, t} without v of the fraction of the
\* shortest s-t paths through v, times PathScale
PairDependency(G, v) ==
    LET pairs == {p \in SUBSET (Nodes(G) \ {v}) : Cardinality(p) = 2}
        Through(p) ==
            LET s == CHOOSE x \in p : TRUE
                t == CHOOSE x \in p : x # s
            IN IF Dist(G, s, t) = Unreachable THEN 0
               ELSE IF Dist(G, s, v) # Unreachable /\ Dist(G, v, t) # Unreachable
                       /\ Dist(G, s, v) + Dist(G, v, t) = Dist(G, s, t)
               THEN (PathScale * Sigma(G, s, v) * Sigma(G, v, t)) \div Sigma(G, s, t)
               ELSE 0
    IN SumFn([p \in pairs |-> Through(p)], pairs)

\* nx.betweenness_centrality (normalized): 2 * pairs / ((n - 1)(n - 2)); 0 for n <= 2
BetweennessCentrality(G, v) ==
    IF NumberOfNodes(G) <= 2 THEN 0 ELSE 2 * PairDependency(G, v)

CombinedScore(G, v) == DegreeCentrality(G, v) + BetweennessCentrality(G, v)

\* ------------------------------------------------------------- sorted(...)
\* sorted(s, key=..., reverse=True): descending and stable; key is a function
\* on the indices of s.
RECURSIVE SortIndicesDesc(_, _)
SortIndicesDesc(idx, key) ==
    IF idx = {} THEN <<>>
    ELSE LET i == CHOOSE a \in idx :
                    \A b \in idx : key[b] < key[a] \/ (key[b] = key[a] /\ a <= b)
         IN <<i>> \o SortIndicesDesc(idx \ {i}, key)

\* sorted(s, key=...): ascending and stable
RECURSIVE SortIndicesAsc(_, _)
SortIndicesAsc(idx, key) ==
    IF idx = {} THEN <<>>
    ELSE LET i == CHOOSE a \in idx :
                    \A b \in idx : key[a] < key[b] \/ (key[b] = key[a] /\ a <= b)
         IN <<i>> \o SortIndicesAsc(idx \ {i}, key)

\* ---------------------------------------------------- _identify_central_videos
NodeCentrality(G, v) ==
    [id |-> v,
     degree_centrality |-> DegreeCentrality(G, v),
     betweenness_centrality |-> BetweennessCentrality(G, v),
     combined_score |-> CombinedScore(G, v)]

\* lines 357-360: the nodes sorted by combined score, the first three kept
TopNodes(G) ==
    LET n == NumberOfNodes(G)
        key == [i \in 1..n |-> CombinedScore(G, G.nodes[i])]
        order == SortIndicesDesc(1..n, key)
    IN [k \in 1..Min(3, n) |-> NodeCentrality(G, G.nodes[order[k]])]

IdentifyCentralVideos(G, vs) ==
    IF NumberOfNodes(G) = 0 THEN <<>>
    ELSE LET Found(node) == HasVideo(vs, node.id)
         IN SelectSeq(TopNodes(G), Found)

\* ------------------------------------------------- nx.connected_components
RECURSIVE ReachFrom(_, _)
ReachFrom(G, seen) ==
    LET more == seen \cup UNION {Neighbors(G, u) : u \in seen}
    IN IF more = seen THEN seen ELSE ReachFrom(G, more)

ComponentOf(G, v) == ReachFrom(G, {v})

\* the components, in the order of their first node in G.nodes()
RECURSIVE ComponentsFrom(_, _, _)
ComponentsFrom(G, i, seen) ==
    IF i > Len(G.nodes) THEN <<>>
    ELSE IF G.nodes[i] \in seen THEN ComponentsFrom(G, i + 1, seen)
    ELSE <<ComponentOf(G, G.nodes[i])>>
         \o ComponentsFrom(G, i + 1, seen \cup ComponentOf(G, G.nodes[i]))

ConnectedComponents(G) == ComponentsFrom(G, 1, {})

\* A partition dictionary is the sequence of its items <<node, community>> in
\* insertion order.
\* lines 395-399: component i labels its nodes i (taken in G.nodes() order)
ComponentPartition(G) ==
    LET comps == ConnectedComponents(G)
        InComp(c) == LET In(v) == v \in comps[c] IN SelectSeq(G.nodes, In)
        RECURSIVE Items(_)
        Items(c) == IF c > Len(comps) THEN <<>>
                    ELSE [k \in 1..Len(InComp(c)) |-> <<InComp(c)[k], c - 1>>] \o Items(c + 1)
    IN Items(1)

\* ------------------------------------------------ _calculate_network_metrics
\* A metric is the fraction num / den.
Whole(k) == [num |-> k, den |-> 1]

\* nx.density: 0 for no edge or fewer than two nodes, else 2m / (n(n - 1))
Density(G) ==
    LET n == NumberOfNodes(G)
        m == NumberOfEdges(G)
    IN IF m = 0 \/ n <= 1 THEN Whole(0) ELSE [num |-> 2 * m, den |-> n * (n - 1)]

\* nx.clustering of a node, times PathScale: the connected pairs among its
\* neighbours over all pairs of them; 0 for fewer than two neighbours
Clustering(G, v) ==
    LET nb == Neighbors(G, v)
        d == Cardinality(nb)
        closed == Cardinality({p \in SUBSET nb : Cardinality(p) = 2 /\ p \in Edges(G)})
    IN IF d < 2 THEN 0 ELSE (PathScale * 2 * closed) \div (d * (d - 1))

\* max(...) of the values of a function on the nodes
MaxOver(f, S) == CHOOSE x \in {f[v] : v \in S} : \A v \in S : f[v] <= x

\* The metrics dictionary: its keys are the keys set.  average_clustering of
\* the graph without nodes divides by zero and is 0 by the handler of line 261.
CalculateNetworkMetrics(G) ==
    LET n == NumberOfNodes(G)
        N == Nodes(G)
        basic == [k \in {"node_count", "edge_count", "density", "average_clustering",
                         "component_count"} |->
                    CASE k = "node_count" -> Whole(n)
                      [] k = "edge_count" -> Whole(NumberOfEdges(G))
                      [] k = "density" -> Density(G)
                      [] k = "average_clustering" ->
                            IF n = 0 THEN Whole(0)
                            ELSE [num |-> SumFn([v \in N |-> Clustering(G, v)], N),
                                  den |-> PathScale * n]
                      [] k = "component_count" -> Whole(Len(ConnectedComponents(G)))]
        dc == [v \in N |-> DegreeCentrality(G, v)]
        bc == [v \in N |-> BetweennessCentrality(G, v)]
        centrality == [k \in {"max_degree_centrality", "avg_degree_centrality",
                              "max_betweenness_centrality"} |->
                         CASE k = "max_degree_centrality" ->
                                 [num |-> MaxOver(dc, N), den |-> CentralityScale(n)]
                           [] k = "avg_degree_centrality" ->
                                 [num |-> SumFn(dc, N), den |-> n * CentralityScale(n)]
                           [] k = "max_betweenness_centrality" ->
                                 [num |-> MaxOver(bc, N), den |-> CentralityScale(n)]]
    IN IF n > 0
       THEN [k \in DOMAIN basic \cup DOMAIN centrality |->
                IF k \in DOMAIN basic THEN basic[k] ELSE centrality[k]]
       ELSE basic

\* ----------------------------- community.best_partition (Louvain, python-louvain)
\* graph.degree(node, weight): a self-loop's weight counts twice
WeightedDegree(G, v) ==
    LET inc == {e \in Edges(G) : v \in e}
    IN SumFn([e \in inc |-> IF IsSelfLoop(e) THEN 2 * G.w[e] ELSE G.w[e]], inc)

\* graph.size(weight)
TotalWeight(G) == SumFn(G.w, Edges(G))

\* status.degrees[com]: the degrees of the nodes that node2com maps to com
CommunityDegree(G, node2com, com) ==
    LET in == {u \in Nodes(G) : node2com[u] = com}
    IN SumFn([u \in in |-> WeightedDegree(G, u)], in)

\* __neighcom: the weight from v to each community among its neighbours
NeighCom(G, node2com, v) ==
    [com \in {node2com[u] : u \in Neighbors(G, v)} |->
        LET in == {u \in Neighbors(G, v) : node2com[u] = com}
        IN SumFn([u \in in |-> G.w[{u, v}]], in)]

\* One node of __one_level's sweep: the communities v may end up in.  incr is
\* kept times 2 * total_weight.  The neighbouring communities are visited in
\* random order and the first strictly better one wins, so any community of
\* maximal positive gain can be chosen; without one, v stays.
BestCommunities(G, node2com, v) ==
    LET own == node2com[v]
        gv == WeightedDegree(G, v)
        nc == NeighCom(G, node2com, v)
        ncown == IF own \in DOMAIN nc THEN nc[own] ELSE 0
        After(com) == CommunityDegree(G, node2com, com) - (IF com = own THEN gv ELSE 0)
        Incr(com) == 2 * TotalWeight(G) * (nc[com] - ncown)
                     + gv * ((CommunityDegree(G, node2com, own) - gv) - After(com))
        best == {com \in DOMAIN nc : \A other \in DOMAIN nc : Incr(other) <= Incr(com)}
    IN IF DOMAIN nc = {} \/ \A com \in DOMAIN nc : Incr(com) <= 0
       THEN {own}
       ELSE best

\* the states after the nodes order[k..] have been visited, from the states S
RECURSIVE SweepFrom(_, _, _, _)
SweepFrom(G, S, order, k) ==
    IF k > Len(order) THEN S
    ELSE SweepFrom(G,
                   UNION {{[s EXCEPT ![order[k]] = com] :
                              com \in BestCommunities(G, s, order[k])} : s \in S},
                   order, k + 1)

\* __randomize(graph.nodes()): any order of the nodes
NodeOrders(G) ==
    {o \in [1..Len(G.nodes) -> Nodes(G)] : \A i, j \in 1..Len(G.nodes) : o[i] = o[j] => i = j}

\* __one_level: sweeps, each in a fresh random order, until one moves no node
RECURSIVE OneLevelFrom(_, _)
OneLevelFrom(G, s) ==
    LET outs == UNION {SweepFrom(G, {s}, o, 1) : o \in NodeOrders(G)}
    IN (outs \cap {s}) \cup UNION {OneLevelFrom(G, t) : t \in outs \ {s}}

\* Status.init: node i of graph.nodes() starts in community i (from 0)
InitialCommunities(G) == [v \in Nodes(G) |-> NodeIndex(G, v) - 1]

\* __renumber: labels already in 0..k-1 stay, the others take the free ones
Renumber(node2com) ==
    LET values == {node2com[v] : v \in DOMAIN node2com}
        target == 0..(Cardinality(values) - 1)
        old == values \ target
        free == target \ values
        Rank(S, x) == Cardinality({y \in S : y < x})
        New(x) == IF x \in target THEN x
                  ELSE CHOOSE y \in free : Rank(free, y) = Rank(old, x)
    IN [v \in DOMAIN node2com |-> New(node2com[v])]

\* induced_graph: one node per community, the weights between communities added up
InducedGraph(G, partition) ==
    LET labels == [i \in 1..Len(G.nodes) |-> partition[G.nodes[i]]]
        First(i) == \A j \in 1..(i - 1) : labels[j] # labels[i]
        firsts == LET F(i) == First(i) IN SelectSeq([i \in 1..Len(labels) |-> i], F)
        Image(e) == {partition[v] : v \in e}
    IN [nodes |-> [k \in 1..Len(firsts) |-> labels[firsts[k]]],
        w |-> [c \in {Image(e) : e \in Edges(G)} |->
                 LET in == {e \in Edges(G) : Image(e) = c}
                 IN SumFn([e \in in |-> G.w[e]], in)]]

IsSingletons(node2com) ==
    \A u, v \in DOMAIN node2com : node2com[u] = node2com[v] => u = v

\* the levels after the first: a level that moves nothing ends the dendrogram
RECURSIVE DeeperLevels(_)
DeeperLevels(G) ==
    UNION {IF IsSingletons(p) THEN {[v \in Nodes(G) |-> v]}
           ELSE {[v \in Nodes(G) |-> q[Renumber(p)[v]]] :
                    q \in DeeperLevels(InducedGraph(G, Renumber(p)))} :
           p \in OneLevelFrom(G, InitialCommunities(G))}

\* best_partition(G): every dictionary node -> community it can return
BestPartitions(G) ==
    IF NumberOfEdges(G) = 0 THEN {InitialCommunities(G)}
    ELSE UNION {{[v \in Nodes(G) |-> q[Renumber(p)[v]]] :
                    q \in DeeperLevels(InducedGraph(G, Renumber(p)))} :
                p \in OneLevelFrom(G, InitialCommunities(G))}

\* the items of such a dictionary: in G.nodes() order
PartitionItems(G, node2com) == [i \in 1..Len(G.nodes) |-> <<G.nodes[i], node2com[G.nodes[i]]>>]

\* lines 401-420, without the sort of line 423
GroupClustersUnsorted(items, vs) ==
    LET Found(it) == HasVideo(vs, it[1])
        kept == SelectSeq(items, Found)
        FirstOf(i) == \A j \in 1..(i - 1) : kept[j][2] # kept[i][2]
        firsts == LET F(i) == FirstOf(i) IN SelectSeq([i \in 1..Len(kept) |-> i], F)
        Members(c) == LET In(it) == it[2] = c
                          m == SelectSeq(kept, In)
                      IN [k \in 1..Len(m) |-> m[k][1]]
        result == [k \in 1..Len(firsts) |->
                     [id |-> kept[firsts[k]][2],
                      videos |-> Members(kept[firsts[k]][2]),
                      size |-> Len(Members(kept[firsts[k]][2]))]]
    IN result

\* ------------------------------------------------ _identify_content_clusters
\* lines 401-425: the partition's items grouped by community (members whose
\* video is found), the groups sorted by size, largest first
GroupClusters(items, vs) ==
    LET Found(it) == HasVideo(vs, it[1])
        kept == SelectSeq(items, Found)
        FirstOf(i) == \A j \in 1..(i - 1) : kept[j][2] # kept[i][2]
        firsts == LET F(i) == FirstOf(i) IN SelectSeq([i \in 1..Len(kept) |-> i], F)
        Members(c) == LET In(it) == it[2] = c
                          m == SelectSeq(kept, In)
                      IN [k \in 1..Len(m) |-> m[k][1]]
        result == [k \in 1..Len(firsts) |->
                     [id |-> kept[firsts[k]][2],
                      videos |-> Members(kept[firsts[k]][2]),
                      size |-> Len(Members(kept[firsts[k]][2]))]]
        order == SortIndicesDesc(1..Len(result), [k \in 1..Len(result) |-> result[k].size])
    IN [k \in 1..Len(result) |-> result[order[k]]]

\* The cluster lists the function can return.  louvain says how lines 390-392
\* go: "available" (best_partition returns), "missing" (the import raises
\* ImportError: the fallback of lines 393-399), "raises" (best_partition raises
\* another exception: the handler of lines 427-429 returns []).
\* `from community import best_partition` succeeds.
IdentifyContentClusters(G, vs, louvain) ==
    IF NumberOfNodes(G) = 0 THEN {<<>>}
    ELSE IF louvain = "available"
    THEN {GroupClusters(PartitionItems(G, p), vs) : p \in BestPartitions(G)}
    ELSE IF louvain = "missing"
    THEN {GroupClusters(ComponentPartition(G), vs)}
    ELSE {<<>>}

\* ------------------------------------------------ _generate_network_insights
\* lines 437-452 with line 447 as `density >= 0.7`
GenerateNetworkInsightsFromBand(G, cs) ==
    IF NumberOfNodes(G) > 0
    THEN <<<<"The content network consists of ", ToString(NumberOfNodes(G)), " videos with ",
             ToString(NumberOfEdges(G)), " connections between them.">>>>
         \o (IF Len(cs) > 1
             THEN <<<<"The content is organized into ", ToString(Len(cs)),
                      " distinct topic clusters.">>>>
             ELSE IF Len(cs) = 1
             THEN <<<<"All videos form a single coherent content cluster.">>>>
             ELSE <<>>)
         \o (LET density == Density(G)
             IN IF 10 * density.num >= 7 * density.den
                THEN <<<<"The content network is very densely connected, indicating strongly related content.">>>>
                ELSE IF 10 * density.num > 3 * density.den
                THEN <<<<"The content network shows moderate connectivity between videos.">>>>
                ELSE <<<<"The content network is sparsely connected, suggesting diverse or loosely related content.">>>>)
    ELSE <<>>

\* lines 437-452, the sentences as token sequences; called with no topics and
\* no central videos, lines 454-470 add nothing
GenerateNetworkInsights(G, cs) ==
    IF NumberOfNodes(G) > 0
    THEN <<<<"The content network consists of ", ToString(NumberOfNodes(G)), " videos with ",
             ToString(NumberOfEdges(G)), " connections between them.">>>>
         \o (IF Len(cs) > 1
             THEN <<<<"The content is organized into ", ToString(Len(cs)),
                      " distinct topic clusters.">>>>
             ELSE IF Len(cs) = 1
             THEN <<<<"All videos form a single coherent content cluster.">>>>
             ELSE <<>>)
         \o (LET density == Density(G)
             IN IF 10 * density.num > 7 * density.den
                THEN <<<<"The content network is very densely connected, indicating strongly related content.">>>>
                ELSE IF 10 * density.num > 3 * density.den
                THEN <<<<"The content network shows moderate connectivity between videos.">>>>
                ELSE <<<<"The content network is sparsely connected, suggesting diverse or loosely related content.">>>>)
    ELSE <<>>

\* ----------------------------------------------- _prepare_visualization_data
\* lines 475-492: a node whose video is not found by its id gets no entry; the
\* documents have no title and no channel_title
VisualizationNodes(G, vs) ==
    LET Found(v) == HasVideo(vs, v)
        kept == SelectSeq(G.nodes, Found)
    IN [k \in 1..Len(kept) |-> [id |-> kept[k], title |-> "Unknown", group |-> 1]]

\* lines 494-501: one entry for every edge of G.edges(data=True), which
\* reports an edge from its node that comes first in G.nodes(); the entries
\* are kept as a set
VisualizationEdges(G) ==
    {[source |-> CHOOSE u \in e : \A v \in e : NodeIndex(G, u) <= NodeIndex(G, v),
      target |-> CHOOSE u \in e : \A v \in e : NodeIndex(G, u) >= NodeIndex(G, v),
      value |-> G.w[e]] : e \in Edges(G)}

PrepareVisualizationData(G, vs) ==
    [nodes |-> VisualizationNodes(G, vs), edges |-> VisualizationEdges(G)]

\* ------------------------------------------------- analyze_topic_evolution
\* published_at: a date string is a positive number (later = larger), '' is 0.
PubNoKey == 0 - 1         \* the document has no published_at
PubEmpty == 0             \* the default of v.get('published_at', '')
PubDatetime == 100        \* a datetime object instead of a string
GetPublishedAt(v) == IF v.published_at = PubNoKey THEN PubEmpty ELSE v.published_at
IsStringDate(x) == x < PubDatetime

\* a topic's confidence: a number, or one of
ConfNoKey == 0 - 1        \* the topic has no confidence
ConfNotNumber == 0 - 2    \* a confidence that is not a number (e.g. "high")
DefaultConfidence == 50

\* line 97 without the sort: the documents in the order given
UnsortedVideos(vs) == vs

\* line 97: sorted() compares a string with a datetime: TypeError
SortRaises(vs) ==
    \E i, j \in 1..Len(vs) :
        IsStringDate(GetPublishedAt(vs[i])) # IsStringDate(GetPublishedAt(vs[j]))

SortedVideos(vs) ==
    LET order == SortIndicesAsc(1..Len(vs), [i \in 1..Len(vs) |-> GetPublishedAt(vs[i])])
    IN [k \in 1..Len(vs) |-> vs[order[k]]]

\* _extract_topics_from_text: a TfidfVectorizer(min_df=1, max_df=0.9) fitted on
\* the one text; every failure gives [].
ExtractTopicsFromText(t) ==
    IF t.k = "absent" \/ (t.k = "str" /\ t.toks = <<>>) THEN <<>>
    ELSE IF t.k = "nonstr" THEN <<>>
    ELSE LET text == [i \in 1..Len(t.toks) |-> TokenLower(t.toks[i])]
             fit == VectorizerFitWith(<<text>>, 1)
             vocab == fit.state.vocabulary
         IN IF ~fit.ok THEN <<>>
            ELSE [k \in 1..Min(5, Cardinality(vocab)) |->
                    [shape |-> "dict", name |-> Column(vocab, k)[1],
                     confidence |-> 10 * TermCount(text, Column(vocab, k)) * fit.state.idf[k]]]

\* line 103: video['summary'].get on a summary that is no dictionary
TopicsRaises(v) == v.summary.k = "malformed"

\* lines 103-107
TopicsOfVideo(v) ==
    IF v.summary.k = "dict" /\ v.summary.topics # <<>> THEN v.summary.topics
    ELSE ExtractTopicsFromText(v.transcript)

\* lines 109-114
VideoTopics(sorted) ==
    [i \in 1..Len(sorted) |->
        [id |-> GetIdOrEmpty(sorted[i]),
         published_at |-> GetPublishedAt(sorted[i]),
         topics |-> TopicsOfVideo(sorted[i])]]

\* ------------------------------------------------------ _track_topic_evolution
\* lines 596-603
AllTopics(vts) ==
    LET Named(t) == (t.shape = "dict" /\ t.name # NoKey) \/ t.shape = "str"
    IN UNION {{vts[i].topics[k].name :
                  k \in {j \in 1..Len(vts[i].topics) : Named(vts[i].topics[j])}} :
              i \in 1..Len(vts)}

\* lines 621, 625: vtopic matches the topic name
TopicMatches(vtopic, topic) ==
    \/ vtopic.shape = "dict" /\ vtopic.name = topic
    \/ vtopic.shape = "str" /\ vtopic.name = topic

\* lines 620-628 without the breaks of lines 624 and 628
LastMatch(topics, topic) ==
    CHOOSE k \in 1..Len(topics) :
        TopicMatches(topics[k], topic)
        /\ \A j \in (k + 1)..Len(topics) : ~TopicMatches(topics[j], topic)

\* lines 620-628: the confidence of the first matching topic
FirstMatch(topics, topic) ==
    CHOOSE k \in 1..Len(topics) :
        TopicMatches(topics[k], topic) /\ \A j \in 1..(k - 1) : ~TopicMatches(topics[j], topic)

MatchConfidence(vtopic) ==
    IF vtopic.shape = "dict"
    THEN IF vtopic.confidence = ConfNoKey THEN DefaultConfidence ELSE vtopic.confidence
    ELSE DefaultConfidence

\* lines 607-636 with the append of line 631 inside the loop of line 620: an
\* entry for every matching topic of a document
RECURSIVE TimelineOfEveryMatch(_, _)
TimelineOfEveryMatch(vts, topic) ==
    IF vts = <<>> THEN <<>>
    ELSE LET Matches(t) == TopicMatches(t, topic)
             found == SelectSeq(Head(vts).topics, Matches)
         IN [k \in 1..Len(found) |->
               [video_id |-> Head(vts).id,
                published_at |-> Head(vts).published_at,
                confidence |-> MatchConfidence(found[k])]]
            \o TimelineOfEveryMatch(Tail(vts), topic)

\* lines 607-636
Timeline(vts, topic) ==
    LET Present(vt) == \E k \in 1..Len(vt.topics) : TopicMatches(vt.topics[k], topic)
        in == SelectSeq(vts, Present)
    IN [i \in 1..Len(in) |->
          [video_id |-> in[i].id,
           published_at |-> in[i].published_at,
           confidence |-> MatchConfidence(in[i].topics[FirstMatch(in[i].topics, topic)])]]

TrackTopicEvolution(vts) == [topic \in AllTopics(vts) |-> Timeline(vts, topic)]

\* ------------------------------------------------------ _identify_topic_trends
\* line 653 and 656
SortedConfidences(appearances) ==
    LET n == Len(appearances)
        order == SortIndicesAsc(1..n, [i \in 1..n |-> appearances[i].published_at])
    IN [k \in 1..n |-> appearances[order[k]].confidence]

\* line 664, numerator and denominator, x = 0..n-1
SlopeNum(y) ==
    LET n == Len(y)
    IN n * SumSeq([i \in 1..n |-> (i - 1) * y[i]]) - SumSeq([i \in 1..n |-> i - 1]) * SumSeq(y)

SlopeDen(y) ==
    LET n == Len(y)
        sx == SumSeq([i \in 1..n |-> i - 1])
    IN n * SumSeq([i \in 1..n |-> (i - 1) * (i - 1)]) - sx * sx

\* lines 657-681 with line 657 as `len(confidences) >= 2`
TrendSlopeFromTwo(appearances) ==
    LET y == SortedConfidences(appearances)
    IN IF Len(y) >= 2 THEN [num |-> SlopeNum(y), den |-> SlopeDen(y)]
       ELSE [num |-> 0, den |-> 1]

\* lines 657-681: trend_slope as the fraction num / den (den > 0)
TrendSlope(appearances) ==
    LET y == SortedConfidences(appearances)
    IN IF Len(y) >= 3 THEN [num |-> SlopeNum(y), den |-> SlopeDen(y)]
       ELSE [num |-> 0, den |-> 1]

\* lines 689-694 with the comparisons as `>= 0.5` and `<= -0.5`
ClassifyInclusive(slope) ==
    IF 2 * slope.num >= slope.den THEN "trending"
    ELSE IF 2 * slope.num <= 0 - slope.den THEN "declining"
    ELSE "stable"

\* lines 689-694, trend_slope against 0.5 and -0.5
Classify(slope) ==
    IF 2 * slope.num > slope.den THEN "trending"
    ELSE IF 2 * slope.num < 0 - slope.den THEN "declining"
    ELSE "stable"

\* the arithmetic of lines 664, 671, 680 on a confidence that is no number
TrendsRaises(evo) ==
    \E topic \in DOMAIN evo :
        /\ Len(evo[topic]) >= 2
        /\ \E i \in 1..Len(evo[topic]) : evo[topic][i].confidence = ConfNotNumber

\* the topics of a dictionary in its iteration order (taken alphabetical)
TopicSeq(S) ==
    LET all == <<"x", "y", "z">>
        In(t) == t \in S
    IN SelectSeq(all, In)

NoTrends == [empty |-> TRUE, trending |-> <<>>, declining |-> <<>>, stable |-> <<>>]

\* lines 640-700 without the `continue` of lines 648-649
IdentifyTopicTrendsOfEveryTopic(evo) ==
    IF DOMAIN evo = {} THEN NoTrends
    ELSE LET measured == DOMAIN evo
             Is(c) == {t \in measured : Classify(TrendSlope(evo[t])) = c}
         IN [empty |-> FALSE,
             trending |-> TopicSeq(Is("trending")),
             declining |-> TopicSeq(Is("declining")),
             stable |-> TopicSeq(Is("stable"))]

\* lines 640-700
IdentifyTopicTrends(evo) ==
    IF DOMAIN evo = {} THEN NoTrends
    ELSE LET measured == {t \in DOMAIN evo : Len(evo[t]) >= 2}
             Is(c) == {t \in measured : Classify(TrendSlope(evo[t])) = c}
         IN [empty |-> FALSE,
             trending |-> TopicSeq(Is("trending")),
             declining |-> TopicSeq(Is("declining")),
             stable |-> TopicSeq(Is("stable"))]

\* ================================================================== state
VARIABLES
    entry,              \* the entry point that was called
    videos,             \* its argument: None, or the list of documents
    louvain,            \* how `from community import best_partition` and its call go
    pc,                 \* where the call is
    vectorizer,         \* self.vectorizer: what it holds since its last fit
    transcripts,        \* build_content_network: line 46
    video_ids,          \* build_content_network: line 48
    similarity_matrix,  \* line 51
    G,                  \* line 54
    central_videos,     \* line 63
    clusters,           \* line 66
    video_topics,       \* analyze_topic_evolution: lines 100-114
    topic_evolution,    \* line 117
    topic_trends,       \* line 120
    result,             \* "pending", "error", "ok", or "raised" (an exception left the call)
    second,             \* what a second build_content_network call with the same list returned
    metrics,            \* build_content_network: line 57
    comprehensive_summary,  \* generate_comprehensive_summary: the text, line by line
    key_sentences,      \* generate_comprehensive_summary: line 157
    themes,             \* generate_comprehensive_summary: line 166
    network_insights,   \* _generate_network_insights: line 435
    visualization_data, \* build_content_network: line 72
    call_args,          \* the other arguments of a helper that is called on its own
    calls               \* two concurrent build_content_network calls on one analyzer

vars == <<entry, videos, louvain, pc, vectorizer, transcripts, video_ids,
          similarity_matrix, G, central_videos, clusters, video_topics,
          topic_evolution, topic_trends, result, second, metrics,
          comprehensive_summary, key_sentences, themes, network_insights, visualization_data,
          call_args, calls>>

netVars == <<transcripts, video_ids, similarity_matrix, G, central_videos, clusters>>
evoVars == <<video_topics, topic_evolution, topic_trends>>
argVars == <<entry, videos, louvain, call_args>>
outVars == <<metrics, comprehensive_summary, key_sentences, themes, network_insights, visualization_data>>

\* ------------------------------------------------------------ input values
Absent == [k |-> "absent", toks |-> <<>>]
NonString == [k |-> "nonstr", toks |-> <<>>]
Str(toks) == [k |-> "str", toks |-> toks]

NoSummary == [k |-> "absent", topics |-> <<>>]
MalformedSummary == [k |-> "malformed", topics |-> <<>>]
Summary(topics) == [k |-> "dict", topics |-> topics]

TopicDict(name, confidence) == [shape |-> "dict", name |-> name, confidence |-> confidence]
TopicStr(name) == [shape |-> "str", name |-> name, confidence |-> ConfNoKey]

Doc(id, transcript, published_at, summary) ==
    [id |-> id, transcript |-> transcript, published_at |-> published_at, summary |-> summary]

IdNames == <<"a", "b", "c", "d", "e", "f">>

\* Id lists up to renaming: ids are only compared for equality, so the ids
\* present are named a, b, c, ... in the order of their first occurrence; any
\* position may lack its id.
IdLists(n) ==
    {ids \in [1..n -> {NoKey} \cup {IdNames[k] : k \in 1..n}] :
        \A i \in 1..n : \A k \in 2..n :
            ids[i] = IdNames[k] => \E j \in 1..(i - 1) : ids[j] = IdNames[k - 1]}

TranscriptValues ==
    {Absent, NonString, Str(<<"7">>), Str(<<"T1">>), Str(<<"t1", "t2">>), Str(<<"t2">>)}

\* the vectorizer can fit n documents: max_df * n is no less than min_df
CanFit(n) == max_df_tenths * n >= 10 * min_df

\* Lists up to the shortest the vectorizer can fit draw every transcript
\* value; longer lists draw two strings.
TranscriptsFor(n) ==
    IF n > 1 /\ CanFit(n - 1) THEN {Str(<<"T1">>), Str(<<"t2">>)} ELSE TranscriptValues

NetworkLists ==
    UNION {{[i \in 1..n |-> Doc(ids[i], ts[i], PubNoKey, NoSummary)] :
               ids \in IdLists(n), ts \in [1..n -> TranscriptsFor(n)]} : n \in 0..MaxDocs}

LouvainOutcomes == {"available", "missing", "raises"}

NoSecond == [status |-> "none"]
NoCalls == <<>>

Idle ==
    /\ vectorizer = Unfitted
    /\ transcripts = <<>> /\ video_ids = <<>> /\ similarity_matrix = <<>>
    /\ G = EmptyGraph /\ central_videos = <<>> /\ clusters = <<>>
    /\ video_topics = <<>> /\ topic_evolution = <<>> /\ topic_trends = NoTrends
    /\ result = "pending" /\ second = NoSecond
    /\ metrics = <<>> /\ comprehensive_summary = <<>> /\ key_sentences = <<>>
    /\ themes = <<>>
    /\ network_insights = <<>> /\ visualization_data = <<>>
    /\ call_args = <<>>

\* `not videos`
IsEmptyArg(v) == v.isNone \/ v.docs = <<>>

\* ================================================= build_content_network
\* the guard of line 41 as `len(videos) < 1`: a one-document list passes it
BuildCallFromOneDocument ==
    /\ pc = "call" /\ entry = "build_content_network"
    /\ IF IsEmptyArg(videos) \/ Len(videos.docs) < 1
       THEN pc' = "done" /\ result' = "error"
       ELSE pc' = "extract" /\ result' = result
    /\ UNCHANGED <<argVars, outVars, vectorizer, netVars, evoVars, second, calls>>

\* lines 41-43
BuildCall ==
    /\ pc = "call" /\ entry = "build_content_network"
    /\ IF IsEmptyArg(videos) \/ Len(videos.docs) < 2
       THEN pc' = "done" /\ result' = "error"
       ELSE pc' = "extract" /\ result' = result
    /\ UNCHANGED <<argVars, outVars, vectorizer, netVars, evoVars, second, calls>>

\* lines 46-48
Extract ==
    /\ pc = "extract"
    /\ IF \E i \in 1..Len(videos.docs) : PreprocessRaises(videos.docs[i].transcript)
       THEN /\ pc' = "done" /\ result' = "raised"
            /\ UNCHANGED <<transcripts, video_ids>>
       ELSE /\ transcripts' = [i \in 1..Len(videos.docs) |->
                                  PreprocessText(videos.docs[i].transcript)]
            /\ video_ids' = [i \in 1..Len(videos.docs) |-> GetIdOrEmpty(videos.docs[i])]
            /\ pc' = "similarity" /\ result' = result
    /\ UNCHANGED <<argVars, outVars, vectorizer, similarity_matrix, G, central_videos, clusters,
                   evoVars, second, calls>>

\* line 51
Similarity ==
    /\ pc = "similarity"
    /\ LET r == CalculateSimilarityMatrix(transcripts, vectorizer)
       IN similarity_matrix' = r.matrix /\ vectorizer' = r.vectorizer
    /\ pc' = "graph"
    /\ UNCHANGED <<argVars, outVars, transcripts, video_ids, G, central_videos, clusters,
                   evoVars, result, second, calls>>

\* line 54
Graph ==
    /\ pc = "graph"
    /\ G' = CreateGraph(similarity_matrix, video_ids)
    /\ pc' = "metrics"
    /\ UNCHANGED <<argVars, outVars, vectorizer, transcripts, video_ids, similarity_matrix,
                   central_videos, clusters, evoVars, result, second, calls>>

\* line 57
Metrics ==
    /\ pc = "metrics"
    /\ metrics' = CalculateNetworkMetrics(G)
    /\ pc' = "central"
    /\ UNCHANGED <<argVars, comprehensive_summary, key_sentences, themes, network_insights,
                   visualization_data, vectorizer, netVars, evoVars, result,
                   second, calls>>

\* line 63
Central ==
    /\ pc = "central"
    /\ central_videos' = IdentifyCentralVideos(G, videos.docs)
    /\ pc' = "clusters"
    /\ UNCHANGED <<argVars, outVars, vectorizer, transcripts, video_ids, similarity_matrix, G,
                   clusters, evoVars, result, second, calls>>

\* line 66
Clusters ==
    /\ pc = "clusters"
    /\ clusters' \in IdentifyContentClusters(G, videos.docs, louvain)
    /\ pc' = "return"
    /\ UNCHANGED <<argVars, outVars, vectorizer, transcripts, video_ids, similarity_matrix, G,
                   central_videos, evoVars, result, second, calls>>

\* lines 72-81 and 125-129
Return ==
    /\ pc = "return"
    /\ visualization_data' =
          IF entry = "analyze_topic_evolution" THEN visualization_data
          ELSE PrepareVisualizationData(G, videos.docs)
    /\ pc' = "done" /\ result' = "ok"
    /\ UNCHANGED <<argVars, metrics, comprehensive_summary, key_sentences, themes, network_insights,
                   vectorizer, netVars, evoVars, second, calls>>

\* build_content_network as one function: every result it can return for the
\* list vs on an analyzer whose vectorizer holds `held`.
BuildContentNetwork(vs, held, lv) ==
    IF IsEmptyArg(vs) \/ Len(vs.docs) < 2 THEN {[status |-> "error"]}
    ELSE IF \E i \in 1..Len(vs.docs) : PreprocessRaises(vs.docs[i].transcript)
    THEN {[status |-> "raised"]}
    ELSE LET ts == [i \in 1..Len(vs.docs) |-> PreprocessText(vs.docs[i].transcript)]
             ids == [i \in 1..Len(vs.docs) |-> GetIdOrEmpty(vs.docs[i])]
             g == CreateGraph(CalculateSimilarityMatrix(ts, held).matrix, ids)
         IN {[status |-> "ok", G |-> g, network_metrics |-> CalculateNetworkMetrics(g),
              central_videos |-> IdentifyCentralVideos(g, vs.docs),
              clusters |-> c] : c \in IdentifyContentClusters(g, vs.docs, lv)}

\* the first call's result, as such a record
FirstResult ==
    [status |-> "ok", G |-> G, network_metrics |-> metrics,
     central_videos |-> central_videos, clusters |-> clusters]

\* a second call with the same list, after the first returned
CallAgain ==
    /\ pc = "done" /\ entry = "build_content_network" /\ result = "ok"
    /\ second = NoSecond
    /\ second' \in BuildContentNetwork(videos, vectorizer, louvain)
    /\ UNCHANGED <<argVars, outVars, pc, vectorizer, netVars, evoVars, result, calls>>

\* ================================================ analyze_topic_evolution
\* lines 93-94
EvolutionCall ==
    /\ pc = "call" /\ entry = "analyze_topic_evolution"
    /\ IF IsEmptyArg(videos)
       THEN pc' = "done" /\ result' = "error"
       ELSE pc' = "topics" /\ result' = result
    /\ UNCHANGED <<argVars, outVars, vectorizer, netVars, evoVars, second, calls>>

\* lines 97-114 with videos.sort(key=...) for the sorted(videos, key=...) of line 97
TopicsSortingInPlace ==
    /\ pc = "topics"
    /\ IF \/ SortRaises(videos.docs)
          \/ \E i \in 1..Len(videos.docs) : TopicsRaises(videos.docs[i])
       THEN pc' = "done" /\ result' = "raised" /\ UNCHANGED <<video_topics, videos>>
       ELSE /\ video_topics' = VideoTopics(SortedVideos(videos.docs))
            /\ videos' = [videos EXCEPT !.docs = SortedVideos(videos.docs)]
            /\ pc' = "track" /\ result' = result
    /\ UNCHANGED <<entry, louvain, call_args, outVars, vectorizer, netVars, topic_evolution, topic_trends,
                   second, calls>>

\* lines 97-114
Topics ==
    /\ pc = "topics"
    /\ IF \/ SortRaises(videos.docs)
          \/ \E i \in 1..Len(videos.docs) : TopicsRaises(videos.docs[i])
       THEN pc' = "done" /\ result' = "raised" /\ UNCHANGED video_topics
       ELSE /\ video_topics' = VideoTopics(SortedVideos(videos.docs))
            /\ pc' = "track" /\ result' = result
    /\ UNCHANGED <<argVars, outVars, vectorizer, netVars, topic_evolution, topic_trends, second, calls>>

\* line 117
Track ==
    /\ pc = "track"
    /\ topic_evolution' = TrackTopicEvolution(video_topics)
    /\ pc' = "trends"
    /\ UNCHANGED <<argVars, outVars, vectorizer, netVars, video_topics, topic_trends, result,
                   second, calls>>

\* line 120
Trends ==
    /\ pc = "trends"
    /\ IF TrendsRaises(topic_evolution)
       THEN pc' = "done" /\ result' = "raised" /\ UNCHANGED topic_trends
       ELSE /\ topic_trends' = IdentifyTopicTrends(topic_evolution)
            /\ pc' = "return" /\ result' = result
    /\ UNCHANGED <<argVars, outVars, vectorizer, netVars, video_topics, topic_evolution,
                   second, calls>>

\* ======================================================== specifications
\* One call of a public entry point on a fresh analyzer (and, after a
\* build_content_network call, a second call with the same list).
EvolutionValuesSmall ==
    {Doc("a", Absent, p, s) :
        p \in {1, 2, PubDatetime},
        s \in {NoSummary, MalformedSummary, Summary(<<TopicDict("x", 50)>>),
               Summary(<<TopicDict("x", ConfNotNumber)>>)}}

InitBuild ==
    /\ entry = "build_content_network"
    /\ videos \in {[isNone |-> TRUE, docs |-> <<>>]}
                  \cup {[isNone |-> FALSE, docs |-> d] : d \in NetworkLists}
    /\ louvain \in LouvainOutcomes
    /\ pc = "call" /\ calls = NoCalls
    /\ Idle

InitEvolutionSmall ==
    /\ entry = "analyze_topic_evolution"
    /\ videos \in {[isNone |-> TRUE, docs |-> <<>>]}
                  \cup {[isNone |-> FALSE, docs |-> d] :
                           d \in SeqsOf(EvolutionValuesSmall, 0, MaxDocs)}
    /\ louvain = "missing"
    /\ pc = "call" /\ calls = NoCalls
    /\ Idle

Init == InitBuild \/ InitEvolutionSmall

Next ==
    \/ BuildCall \/ Extract \/ Similarity \/ Graph \/ Metrics \/ Central \/ Clusters \/ Return
    \/ CallAgain
    \/ EvolutionCall \/ Topics \/ Track \/ Trends

Spec == Init /\ [][Next]_vars

\* ------------------------------------------------------------------------
\* _create_graph and what build_content_network derives from the graph, for
\* any similarity matrix: symmetric, diagonal 1.0, entries below, at and above
\* the threshold.
MatrixLevels(n) == IF n < MaxNodes THEN {2, 3, 7} ELSE {2, 7}

IndexPairs(n) == {p \in (1..n) \X (1..n) : p[1] < p[2]}

SymmetricMatrices(n) ==
    {[i \in 1..n |-> [j \in 1..n |->
         IF i = j THEN 10 ELSE IF i < j THEN f[<<i, j>>] ELSE f[<<j, i>>]]] :
     f \in [IndexPairs(n) -> MatrixLevels(n)]}

InitGraph ==
    /\ entry = "_create_graph"
    /\ \E n \in 2..MaxNodes :
         /\ \E ids \in IdLists(n) :
              /\ videos = [isNone |-> FALSE,
                           docs |-> [i \in 1..n |-> Doc(ids[i], Absent, PubNoKey, NoSummary)]]
              /\ video_ids = [i \in 1..n |-> GetIdOrEmpty(videos.docs[i])]
         /\ similarity_matrix \in SymmetricMatrices(n)
         /\ transcripts = [i \in 1..n |-> <<>>]
    /\ louvain \in LouvainOutcomes
    /\ pc = "graph" /\ calls = NoCalls
    /\ vectorizer = Unfitted
    /\ G = EmptyGraph /\ central_videos = <<>> /\ clusters = <<>>
    /\ video_topics = <<>> /\ topic_evolution = <<>> /\ topic_trends = NoTrends
    /\ result = "pending" /\ second = NoSecond
    /\ metrics = <<>> /\ comprehensive_summary = <<>> /\ key_sentences = <<>>
    /\ themes = <<>>
    /\ network_insights = <<>> /\ visualization_data = <<>>
    /\ call_args = <<>>

NextGraph == Graph \/ Metrics \/ Central \/ Clusters \/ Return

SpecGraph == InitGraph /\ [][NextGraph]_vars

\* _create_graph alone, as a function of the matrix and the ids
InitCreateGraph == InitGraph /\ louvain = "missing"

SpecCreateGraph == InitCreateGraph /\ [][Graph]_vars

\* ------------------------------------------------------------------------
\* _identify_content_clusters alone, on the graphs of up to MaxNodes nodes (the
\* graph without nodes among them) with every outcome of the Louvain import.
\* Graphs of MaxNodes nodes are built from distinct ids and are not given to
\* best_partition; a similarity is 0.2 (no edge) or 0.7 (an edge).
InitClusters ==
    /\ entry = "_identify_content_clusters"
    /\ \E n \in 0..MaxNodes :
         /\ \E ids \in (IF n < MaxNodes THEN IdLists(n)
                        ELSE {[i \in 1..n |-> IdNames[i]]}) :
              /\ videos = [isNone |-> FALSE,
                           docs |-> [i \in 1..n |-> Doc(ids[i], Absent, PubNoKey, NoSummary)]]
              /\ video_ids = [i \in 1..n |-> GetIdOrEmpty(videos.docs[i])]
         /\ similarity_matrix \in
                {m \in SymmetricMatrices(n) :
                    \A p \in IndexPairs(n) : m[p[1]][p[2]] \in {2, 7}}
         /\ transcripts = [i \in 1..n |-> <<>>]
         /\ louvain \in (IF n < MaxNodes THEN LouvainOutcomes ELSE {"missing", "raises"})
    /\ G = CreateGraph(similarity_matrix, video_ids)
    /\ pc = "clusters" /\ calls = NoCalls
    /\ vectorizer = Unfitted
    /\ central_videos = <<>> /\ clusters = <<>>
    /\ video_topics = <<>> /\ topic_evolution = <<>> /\ topic_trends = NoTrends
    /\ result = "pending" /\ second = NoSecond
    /\ metrics = <<>> /\ comprehensive_summary = <<>> /\ key_sentences = <<>>
    /\ themes = <<>>
    /\ network_insights = <<>> /\ visualization_data = <<>>
    /\ call_args = <<>>

SpecClusters == InitClusters /\ [][Clusters]_vars

\* ------------------------------------------------------------------------
\* _calculate_network_metrics alone, on the graphs of fewer than MaxNodes
\* nodes, the graph without nodes among them.
InitMetrics ==
    /\ entry = "_calculate_network_metrics"
    /\ \E n \in 0..(MaxNodes - 1) :
         /\ \E ids \in IdLists(n) :
              /\ videos = [isNone |-> FALSE,
                           docs |-> [i \in 1..n |-> Doc(ids[i], Absent, PubNoKey, NoSummary)]]
              /\ video_ids = [i \in 1..n |-> GetIdOrEmpty(videos.docs[i])]
         /\ similarity_matrix \in SymmetricMatrices(n)
         /\ transcripts = [i \in 1..n |-> <<>>]
    /\ G = CreateGraph(similarity_matrix, video_ids)
    /\ louvain = "missing"
    /\ pc = "metrics" /\ calls = NoCalls
    /\ vectorizer = Unfitted
    /\ central_videos = <<>> /\ clusters = <<>>
    /\ video_topics = <<>> /\ topic_evolution = <<>> /\ topic_trends = NoTrends
    /\ result = "pending" /\ second = NoSecond
    /\ metrics = <<>> /\ comprehensive_summary = <<>> /\ key_sentences = <<>>
    /\ themes = <<>>
    /\ network_insights = <<>> /\ visualization_data = <<>>
    /\ call_args = <<>>

SpecMetrics == InitMetrics /\ [][Metrics]_vars

\* ------------------------------------------------------------------------
\* _calculate_similarity_matrix alone, on every list of up to MaxNodes
\* preprocessed texts, empty ones among them.
TextValues == {<<>>, <<"t1">>, <<"t1", "t2">>, <<"t2">>}

InitSimilarity ==
    /\ entry = "_calculate_similarity_matrix"
    /\ videos = [isNone |-> FALSE, docs |-> <<>>]
    /\ louvain = "missing"
    /\ pc = "similarity" /\ calls = NoCalls
    /\ transcripts \in SeqsOf(TextValues, 0, MaxNodes)
    /\ vectorizer = Unfitted
    /\ video_ids = <<>> /\ similarity_matrix = <<>>
    /\ G = EmptyGraph /\ central_videos = <<>> /\ clusters = <<>>
    /\ video_topics = <<>> /\ topic_evolution = <<>> /\ topic_trends = NoTrends
    /\ result = "pending" /\ second = NoSecond
    /\ metrics = <<>> /\ comprehensive_summary = <<>> /\ key_sentences = <<>>
    /\ themes = <<>>
    /\ network_insights = <<>> /\ visualization_data = <<>>
    /\ call_args = <<>>

SpecSimilarity == InitSimilarity /\ [][Similarity]_vars

\* ------------------------------------------------------------------------
\* analyze_topic_evolution on documents whose topics carry numeric
\* confidences: every list up to MaxDocs documents, and the three confidence
\* sequences of the trend scenarios.
EvolutionSummaries ==
    {NoSummary, Summary(<<TopicStr("x")>>)}
    \cup {Summary(<<TopicDict("x", c)>>) : c \in {10, 50, 51, 90}}

EvolutionValues ==
    {Doc("a", Absent, p, s) : p \in {PubNoKey, 1}, s \in EvolutionSummaries}

ScenarioList(confidences) ==
    [i \in 1..Len(confidences) |->
        Doc("a", Absent, i, Summary(<<TopicDict("x", confidences[i])>>))]

TrendScenarios ==
    {ScenarioList(<<10, 30, 50, 70, 90>>), ScenarioList(<<90, 70, 50, 30, 10>>),
     ScenarioList(<<50, 50, 50, 50>>)}

InitEvolution ==
    /\ entry = "analyze_topic_evolution"
    /\ videos \in {[isNone |-> FALSE, docs |-> d] :
                      d \in SeqsOf(EvolutionValues, 1, MaxDocs) \cup TrendScenarios}
    /\ louvain = "missing"
    /\ pc = "call" /\ calls = NoCalls
    /\ Idle

NextEvolution == EvolutionCall \/ Topics \/ Track \/ Trends \/ Return

SpecEvolution == InitEvolution /\ [][NextEvolution]_vars

\* ------------------------------------------------------------------------
\* analyze_topic_evolution on documents with distinct ids whose topic lists
\* name up to two topics: as a bare string, as a topic object with or without a
\* confidence, several times in one list, and as a topic object without a
\* name.  Lists of MaxDocs documents carry no published_at.
TopicLists ==
    {<<>>, <<TopicStr("x")>>, <<TopicDict("x", 10)>>, <<TopicDict("x", ConfNoKey)>>,
     <<TopicStr("x"), TopicDict("x", 90)>>,
     <<TopicDict("x", 90), TopicStr("x"), TopicDict("y", 10)>>,
     <<TopicDict("y", 50)>>, <<TopicDict(NoKey, 50)>>}

InitTopics ==
    /\ entry = "analyze_topic_evolution"
    /\ \E n \in 1..MaxDocs :
         \E ts \in [1..n -> TopicLists] :
            \E ps \in [1..n -> (IF n < MaxDocs THEN {PubNoKey, 1} ELSE {PubNoKey})] :
               videos = [isNone |-> FALSE,
                         docs |-> [i \in 1..n |->
                                     Doc(IdNames[i], Absent, ps[i], Summary(ts[i]))]]
    /\ louvain = "missing"
    /\ pc = "call" /\ calls = NoCalls
    /\ Idle

SpecTopics == InitTopics /\ [][NextEvolution]_vars

\* ------------------------------------------------------------------------
\* Two build_content_network calls running concurrently on one analyzer, each
\* on its own three documents; a call's steps are the fit and the transform
\* of self.vectorizer (line 215) and the rest of the call.
Threads == {1, 2}
ConcurrentIds == <<"a", "b", "c">>
ConcurrentTexts == [1..3 -> {<<"t1">>, <<"t1", "t2">>, <<"t2">>}]

\* the graph a call builds when it runs alone on a fresh analyzer
AloneGraph(texts) ==
    CreateGraph(CalculateSimilarityMatrix(texts, Unfitted).matrix, ConcurrentIds)

InitConcurrent ==
    /\ entry = "build_content_network"
    /\ videos = [isNone |-> FALSE, docs |-> <<>>]
    /\ louvain = "missing"
    /\ pc = "threads"
    /\ calls \in [Threads -> {[pc |-> "fit", texts |-> t, own |-> Unfitted,
                               matrix |-> <<>>, G |-> EmptyGraph] : t \in ConcurrentTexts}]
    /\ Idle

\* lines 202-215: the vectorizer is fitted on the call's texts; a ValueError
\* is caught (line 228) and gives the zero matrix
ConcurrentFit(t) ==
    /\ pc = "threads" /\ calls[t].pc = "fit"
    /\ LET fit == VectorizerFit(ValidTexts(calls[t].texts))
       IN IF ValidIndices(calls[t].texts) = {} \/ ~fit.ok
          THEN /\ calls' = [calls EXCEPT ![t].pc = "finish",
                                         ![t].matrix = ZeroMatrix(Len(calls[t].texts))]
               /\ UNCHANGED vectorizer
          ELSE /\ calls' = [calls EXCEPT ![t].pc = "transform", ![t].own = fit.state]
               /\ vectorizer' = fit.state
    /\ UNCHANGED <<argVars, outVars, pc, netVars, evoVars, result, second>>

\* lines 215-226: the transform reads what the vectorizer holds now
ConcurrentTransform(t) ==
    /\ pc = "threads" /\ calls[t].pc = "transform"
    /\ calls' = [calls EXCEPT
                   ![t].pc = "finish",
                   ![t].matrix =
                       IF TransformRaises(calls[t].own, vectorizer)
                       THEN ZeroMatrix(Len(calls[t].texts))
                       ELSE FullSimilarity(calls[t].own, vectorizer, calls[t].texts)]
    /\ UNCHANGED <<argVars, outVars, pc, vectorizer, netVars, evoVars, result, second>>

\* line 54 on: the call's graph
ConcurrentFinish(t) ==
    /\ pc = "threads" /\ calls[t].pc = "finish"
    /\ calls' = [calls EXCEPT ![t].pc = "done",
                              ![t].G = CreateGraph(calls[t].matrix, ConcurrentIds)]
    /\ UNCHANGED <<argVars, outVars, pc, vectorizer, netVars, evoVars, result, second>>

NextConcurrent ==
    \E t \in Threads : ConcurrentFit(t) \/ ConcurrentTransform(t) \/ ConcurrentFinish(t)

SpecConcurrent == InitConcurrent /\ [][NextConcurrent]_vars

\* ======================================== generate_comprehensive_summary
\* A string is the sequence of its tokens: words, the sentence end ".", the
\* blank " " and the line break "\n".  Documents of this entry point carry a
\* summary with topics and a short_summary; they carry no channel_title, no
\* duration_seconds and no sentiment.
SummaryWith(topics, short) ==
    [k |-> "dict", topics |-> topics, short_summary |-> short]

num_sentences == 10

\* the section headers of lines 161, 165, 170 and 175
SectionHeaders ==
    <<<<"##", " ", "Overview">>,
      <<"##", " ", "Key", " ", "Themes">>,
      <<"##", " ", "Main", " ", "Points">>,
      <<"##", " ", "Comparative", " ", "Insights">>>>

\* \s of line 514, the separators of str.split() at line 755
IsSpace(tok) == tok \in {" ", "\n"}

\* the lines of a text
Lines(s) ==
    LET Break(i) == s[i] = "\n"
        breaks == SelectSeq([i \in 1..Len(s) |-> i], Break)
        first(k) == IF k = 1 THEN 1 ELSE breaks[k - 1] + 1
        last(k) == IF k = Len(breaks) + 1 THEN Len(s) ELSE breaks[k] - 1
    IN [k \in 1..(Len(breaks) + 1) |-> SubSeq(s, first(k), last(k))]

\* line 514, re.split(r'(?<=[.!?])\s+', text): the text is cut at every run of
\* white space that follows a sentence end; the run is dropped
RECURSIVE SplitFrom(_, _, _)
SplitFrom(s, i, cur) ==
    IF i > Len(s) THEN <<cur>>
    ELSE IF IsSpace(s[i]) /\ i > 1 /\ s[i - 1] = "."
    THEN LET rest == {j \in i..Len(s) : ~IsSpace(s[j])}
             next == IF rest = {} THEN Len(s) + 1
                     ELSE CHOOSE j \in rest : \A m \in rest : j <= m
         IN <<cur>> \o SplitFrom(s, next, <<>>)
    ELSE SplitFrom(s, i + 1, Append(cur, s[i]))

SplitSentences(s) == SplitFrom(s, 1, <<>>)

\* line 755, set(sentence.split()): the words of a sentence
RECURSIVE WordsFrom(_, _, _)
WordsFrom(s, i, cur) ==
    LET word == IF cur = <<>> THEN {} ELSE {cur}
    IN IF i > Len(s) THEN word
       ELSE IF IsSpace(s[i]) THEN word \cup WordsFrom(s, i + 1, <<>>)
       ELSE WordsFrom(s, i + 1, Append(cur, s[i]))

WordsOf(s) == WordsFrom(s, 1, <<>>)

\* sep.join(strs)
RECURSIVE Join(_, _)
Join(sep, strs) ==
    IF strs = <<>> THEN <<>>
    ELSE IF Len(strs) = 1 THEN strs[1]
    ELSE strs[1] \o sep \o Join(sep, Tail(strs))

\* line 147: video['summary'].get of a summary that is no dictionary
SummaryRaises(vs) == \E i \in 1..Len(vs) : vs[i].summary.k = "malformed"

\* lines 145-148
ShortSummaries(vs) ==
    LET Has(v) == v.summary.k = "dict" /\ v.summary.short_summary # <<>>
        with == SelectSeq(vs, Has)
    IN [i \in 1..Len(with) |-> with[i].summary.short_summary]

\* a function with its values computed once
Evaluated(f) == f @@ <<>>

\* line 519, TfidfVectorizer(stop_words='english') with its default token
\* pattern: a token is a term when it is a word of two or more characters and
\* no stop word
IsTerm(tok) ==
    tok \notin {".", " ", "\n", "- ", "##", "p", "q", "r", "u", "v"} \cup StopWords

\* smooth idf = ln((1 + n) / (1 + df)) + 1 of the default min_df = 1, in tenths
\* (rounded)
SentenceIdf10(n, df) ==
    CASE n = df -> 10
      [] n = 2 /\ df = 1 -> 14
      [] n = 3 /\ df = 1 -> 17
      [] n = 3 /\ df = 2 -> 13
      [] n = 4 /\ df = 1 -> 19
      [] n = 4 /\ df = 2 -> 15
      [] n = 4 /\ df = 3 -> 12
      [] n = 5 /\ df = 1 -> 21
      [] n = 5 /\ df = 2 -> 17
      [] n = 5 /\ df = 3 -> 14
      [] n = 5 /\ df = 4 -> 12
      [] OTHER -> 10 + 2 * (n - df)

\* lines 519-524: the fit of the sentences (a ValueError when no sentence has
\* a term) and their cosine similarities in tenths, rounded down.  Sentences of
\* one term each, which is what the texts of this model are made of, have the
\* similarities 0 and 1.0 whatever the idf weights are.
SentenceSimilarity(sentences) ==
    LET n == Len(sentences)
        Term(tok) == IsTerm(tok)
        terms == [i \in 1..n |->
                    SelectSeq([k \in 1..Len(sentences[i]) |-> TokenLower(sentences[i][k])],
                              Term)]
        vocabulary == UNION {Range(terms[i]) : i \in 1..n}
        count(i, t) == Cardinality({k \in 1..Len(terms[i]) : terms[i][k] = t})
        df(t) == Cardinality({i \in 1..n : count(i, t) > 0})
        w == Evaluated([i \in 1..n |->
                 Evaluated([t \in vocabulary |-> count(i, t) * SentenceIdf10(n, df(t))])])
        dot == Evaluated([i \in 1..n |-> Evaluated([j \in 1..n |->
                  SumFn([t \in vocabulary |-> w[i][t] * w[j][t]], vocabulary)])])
        \* c * c * p <= 100 * q for p = dot[i][i] * dot[j][j] and q = dot[i][j] ^ 2,
        \* without the product of the three
        Below(c, p, q) == c * c * (p \div 100) + ((c * c * (p % 100) + 99) \div 100) <= q
        cos(i, j) ==
            IF dot[i][i] = 0 \/ dot[j][j] = 0 THEN 0
            ELSE LET p == dot[i][i] * dot[j][j]
                     q == dot[i][j] * dot[i][j]
                 IN CHOOSE c \in 0..10 :
                       Below(c, p, q) /\ (c = 10 \/ ~Below(c + 1, p, q))
    IN IF vocabulary = {} THEN [ok |-> FALSE, matrix |-> <<>>]
       ELSE [ok |-> TRUE,
             matrix |-> Evaluated([i \in 1..n |-> Evaluated([j \in 1..n |-> cos(i, j)])])]

\* lines 508-540, the lists _extract_key_sentences(text, n) can return, n >= 0.
\* Up to n sentences are returned as they are.  Of more, the n of the highest
\* scores are kept in their original order (argsort may order equal scores
\* either way), or the first n when the fit raises.  For n = 0 the slice
\* scores.argsort()[-0:] of line 530 is the whole array.
ExtractKeySentences(text, n) ==
    IF text = <<>> THEN {<<>>}
    ELSE LET sentences == SplitSentences(text)
             S == Len(sentences)
             fit == SentenceSimilarity(sentences)
             scores == Evaluated([i \in 1..S |-> SumFn(fit.matrix[i], 1..S)])
             Kept(top_indices) ==
                 LET In(i) == i \in top_indices
                     ordered_indices == SelectSeq([i \in 1..S |-> i], In)
                 IN [k \in 1..Len(ordered_indices) |-> sentences[ordered_indices[k]]]
         IN IF S <= n THEN {sentences}
            ELSE IF ~fit.ok THEN {SubSeq(sentences, 1, n)}
            ELSE IF n = 0 THEN {sentences}
            ELSE {Kept(top) : top \in {t \in SUBSET (1..S) :
                                          /\ Cardinality(t) = n
                                          /\ \A i \in t : \A j \in (1..S) \ t :
                                                scores[j] <= scores[i]}}

\* lines 731-761
GenerateOverviewParagraph(vs, ks) ==
    IF vs = <<>> THEN <<"No videos available for analysis.">>
    ELSE IF ks = <<>> THEN <<"Insufficient content for generating an overview.">>
    ELSE LET channels == {"Unknown" : i \in 1..Len(vs)}
             overview == <<"This analysis covers ", ToString(Len(vs)), " videos from ",
                           ToString(Cardinality(channels)), " different channels. ">>
             different == {i \in 2..Len(ks) :
                              Cardinality(WordsOf(ks[i]) \ WordsOf(ks[1])) > 5}
         IN IF Len(ks) >= 2
            THEN overview \o ks[1] \o <<" ">>
                   \o (IF different = {} THEN <<>>
                       ELSE ks[CHOOSE i \in different : \A j \in different : i <= j])
            ELSE overview \o ks[1]

\* lines 766-775 and 828-836: the topic names of all summaries, in order
RECURSIVE TopicNames(_)
TopicNames(vs) ==
    IF vs = <<>> THEN <<>>
    ELSE LET Named(t) == (t.shape = "dict" /\ t.name # NoKey) \/ t.shape = "str"
             named == IF Head(vs).summary.k = "dict"
                      THEN SelectSeq(Head(vs).summary.topics, Named) ELSE <<>>
         IN [t \in 1..Len(named) |-> named[t].name] \o TopicNames(Tail(vs))

\* Counter(all_topics): the distinct names in the order of their first
\* occurrence, each with its count
TopicCounts(all_topics) ==
    LET First(i) == \A j \in 1..(i - 1) : all_topics[j] # all_topics[i]
        firsts == SelectSeq([i \in 1..Len(all_topics) |-> i], First)
    IN [k \in 1..Len(firsts) |->
          [name |-> all_topics[firsts[k]],
           count |-> Cardinality({j \in 1..Len(all_topics) :
                                     all_topics[j] = all_topics[firsts[k]]})]]

\* lines 763-790: most_common(10) is by count, largest first, ties in the
\* order of first occurrence
ExtractThemesAcrossVideos(vs) ==
    LET topic_counts == TopicCounts(TopicNames(vs))
        order == SortIndicesDesc(1..Len(topic_counts),
                                 [k \in 1..Len(topic_counts) |-> topic_counts[k].count])
        most_common == SubSeq(order, 1, Min(10, Len(order)))
    IN [k \in 1..Len(most_common) |->
          [name |-> topic_counts[most_common[k]].name,
           count |-> topic_counts[most_common[k]].count,
           description |-> <<"Appears in ", ToString(topic_counts[most_common[k]].count),
                             " out of ", ToString(Len(vs)), " videos.">>,
           prevalence |-> [num |-> topic_counts[most_common[k]].count * 100,
                           den |-> Len(vs)]]]

\* lines 792-853
GenerateComparativeInsights(vs) ==
    IF Len(vs) < 2 THEN <<"Insufficient videos for comparative analysis.">>
    ELSE LET topic_counts == TopicCounts(TopicNames(vs))
             More(c) == c.count > 1
             common == SelectSeq(topic_counts, More)
             common_topics == [k \in 1..Len(common) |-> <<common[k].name>>]
             insights ==
                 IF topic_counts = <<>> THEN <<>>
                 ELSE IF common_topics # <<>>
                 THEN <<"Common topics that appear across multiple videos include ">>
                        \o Join(<<", ">>, SubSeq(common_topics, 1, Min(5, Len(common_topics))))
                        \o <<".">>
                        \o (IF Len(common_topics) > 5
                            THEN <<" and ", ToString(Len(common_topics) - 5), " others">>
                            ELSE <<>>)
                        \o <<".", "\n", "\n">>
                 ELSE <<"Each video covers distinct topics with minimal overlap, suggesting a broad coverage of the subject area.",
                        "\n", "\n">>
         IN IF insights = <<>> THEN <<"Insufficient data for comparative analysis.">>
            ELSE insights

\* lines 160-178
RECURSIVE ThemeLines(_)
ThemeLines(ths) ==
    IF ths = <<>> THEN <<>>
    ELSE <<"- ", "**", Head(ths).name, "**", ": ">> \o Head(ths).description
           \o <<"\n">> \o ThemeLines(Tail(ths))

RECURSIVE PointLines(_)
PointLines(sentences) ==
    IF sentences = <<>> THEN <<>>
    ELSE <<"- ">> \o Head(sentences) \o <<"\n">> \o PointLines(Tail(sentences))

ComprehensiveSummary(vs, ks) ==
    LET ths == ExtractThemesAcrossVideos(vs)
    IN <<"# Comprehensive Analysis of Related Content", "\n", "\n">>
         \o SectionHeaders[1] \o <<"\n", "\n">>
         \o GenerateOverviewParagraph(vs, ks) \o <<"\n", "\n">>
         \o SectionHeaders[2] \o <<"\n", "\n">>
         \o ThemeLines(SubSeq(ths, 1, Min(5, Len(ths))))
         \o <<"\n">> \o SectionHeaders[3] \o <<"\n", "\n">>
         \o PointLines(SubSeq(ks, 1, Min(7, Len(ks))))
         \o <<"\n">> \o SectionHeaders[4] \o <<"\n", "\n">>
         \o GenerateComparativeInsights(vs)

\* lines 141-152
SummaryCall ==
    /\ pc = "call" /\ entry = "generate_comprehensive_summary"
    /\ IF IsEmptyArg(videos)
       THEN /\ comprehensive_summary' = Lines(<<"No videos provided for analysis.">>)
            /\ pc' = "done" /\ result' = "ok"
       ELSE IF SummaryRaises(videos.docs)
       THEN pc' = "done" /\ result' = "raised" /\ UNCHANGED comprehensive_summary
       ELSE IF ShortSummaries(videos.docs) = <<>>
       THEN /\ comprehensive_summary' = Lines(<<"No summaries available for analysis.">>)
            /\ pc' = "done" /\ result' = "ok"
       ELSE pc' = "sentences" /\ UNCHANGED <<comprehensive_summary, result>>
    /\ UNCHANGED <<argVars, metrics, themes, network_insights, visualization_data, key_sentences, vectorizer, netVars, evoVars, second, calls>>

\* lines 154-157
KeySentences ==
    /\ pc = "sentences"
    /\ key_sentences' \in ExtractKeySentences(Join(<<" ">>, ShortSummaries(videos.docs)),
                                          num_sentences)
    /\ pc' = "assemble"
    /\ UNCHANGED <<argVars, metrics, themes, network_insights, visualization_data, comprehensive_summary, vectorizer, netVars, evoVars,
                   result, second, calls>>

\* lines 160-178
Assemble ==
    /\ pc = "assemble"
    /\ themes' = ExtractThemesAcrossVideos(videos.docs)
    /\ comprehensive_summary' = Lines(ComprehensiveSummary(videos.docs, key_sentences))
    /\ pc' = "done" /\ result' = "ok"
    /\ UNCHANGED <<argVars, metrics, key_sentences, network_insights, visualization_data, vectorizer,
                   netVars, evoVars, second, calls>>

\* One call of generate_comprehensive_summary on a fresh analyzer.  The
\* short summaries: one sentence, four sentences, one sentence of seven
\* words, a bulleted sentence over three lines, and a sentence with the line
\* "## Overview" inside.  One summary lists a topic twice.
SummaryValues ==
    {NoSummary, MalformedSummary,
     SummaryWith(<<>>, <<>>),
     SummaryWith(<<TopicStr("x")>>, <<"s1", ".">>),
     SummaryWith(<<TopicStr("z"), TopicStr("z")>>, <<"s1", ".">>),
     SummaryWith(<<TopicStr("x"), TopicStr("t2"), TopicStr("t3"), TopicStr("t4"),
                   TopicStr("t5"), TopicStr("t6")>>,
                 <<"s1", ".", " ", "s2", ".", " ", "s3", ".", " ", "s4", ".">>),
     SummaryWith(<<TopicDict("y", 50)>>,
                 <<"w1", " ", "w2", " ", "w3", " ", "w4", " ", "w5", " ", "w6", " ", "w7", ".">>),
     SummaryWith(<<>>, <<"p", "\n", "- ", "q", "\n", "- ", "r", ".">>),
     SummaryWith(<<>>, <<"u", "\n", "##", " ", "Overview", "\n", "v", ".">>)}

InitSummary ==
    /\ entry = "generate_comprehensive_summary"
    /\ videos \in {[isNone |-> TRUE, docs |-> <<>>]}
                  \cup {[isNone |-> FALSE, docs |-> d] :
                           d \in SeqsOf({Doc("a", Absent, PubNoKey, s) : s \in SummaryValues},
                                        0, MaxDocs)}
    /\ louvain = "missing"
    /\ pc = "call" /\ calls = NoCalls
    /\ Idle

NextSummary == SummaryCall \/ KeySentences \/ Assemble

SpecSummary == InitSummary /\ [][NextSummary]_vars

\* ------------------------------------------------------------------------
\* _extract_key_sentences alone, on the texts of up to MaxSentences sentences
\* joined by blanks, a sentence being one term once or twice, another term, a
\* stop word, or the empty rest after a closing blank; num_sentences from 0.
ExtractCall ==
    /\ pc = "call" /\ entry = "_extract_key_sentences"
    /\ key_sentences' \in ExtractKeySentences(call_args.text, call_args.num_sentences)
    /\ pc' = "done" /\ result' = "ok"
    /\ UNCHANGED <<argVars, metrics, themes, network_insights, visualization_data, comprehensive_summary, vectorizer, netVars, evoVars,
                   second, calls>>

SentenceValues ==
    {<<"aa", ".">>, <<"aa", " ", "aa", ".">>, <<"bb", ".">>, <<"the", ".">>}

InitKeySentences ==
    /\ entry = "_extract_key_sentences"
    /\ videos = [isNone |-> TRUE, docs |-> <<>>]
    /\ call_args \in
          {[text |-> Join(<<" ">>, ss) \o tail, num_sentences |-> n] :
              ss \in SeqsOf(SentenceValues, 0, MaxSentences),
              tail \in {<<>>, <<" ">>},
              n \in 0..(MaxSentences - 1)}
    /\ louvain = "missing"
    /\ pc = "call" /\ calls = NoCalls
    /\ vectorizer = Unfitted
    /\ transcripts = <<>> /\ video_ids = <<>> /\ similarity_matrix = <<>>
    /\ G = EmptyGraph /\ central_videos = <<>> /\ clusters = <<>>
    /\ video_topics = <<>> /\ topic_evolution = <<>> /\ topic_trends = NoTrends
    /\ result = "pending" /\ second = NoSecond
    /\ metrics = <<>> /\ comprehensive_summary = <<>> /\ key_sentences = <<>>
    /\ themes = <<>>
    /\ network_insights = <<>> /\ visualization_data = <<>>

SpecKeySentences == InitKeySentences /\ [][ExtractCall]_vars

\* ------------------------------------------------------------------------
\* _create_graph alone on matrices that need not be symmetric: any entries
\* above the diagonal, one value all along the diagonal, and below it the
\* mirrored entries, or 0.2 everywhere, or 0.7 everywhere.  Lists of MaxNodes
\* ids are pairwise distinct.
AnyMatrices(n) ==
    {[i \in 1..n |-> [j \in 1..n |->
         IF i = j THEN d
         ELSE IF i < j THEN f[<<i, j>>]
         ELSE IF low = 0 THEN f[<<j, i>>] ELSE low]] :
     f \in [IndexPairs(n) -> {2, 7}], d \in {2, 10}, low \in {0, 2, 7}}

InitAnyMatrix ==
    /\ entry = "_create_graph"
    /\ \E n \in 2..MaxNodes :
         /\ \E ids \in (IF n < MaxNodes THEN IdLists(n)
                        ELSE {[i \in 1..n |-> IdNames[i]]}) :
              /\ videos = [isNone |-> FALSE,
                           docs |-> [i \in 1..n |-> Doc(ids[i], Absent, PubNoKey, NoSummary)]]
              /\ video_ids = [i \in 1..n |-> GetIdOrEmpty(videos.docs[i])]
         /\ similarity_matrix \in AnyMatrices(n)
         /\ transcripts = [i \in 1..n |-> <<>>]
    /\ louvain = "missing"
    /\ pc = "graph" /\ calls = NoCalls
    /\ vectorizer = Unfitted
    /\ G = EmptyGraph /\ central_videos = <<>> /\ clusters = <<>>
    /\ video_topics = <<>> /\ topic_evolution = <<>> /\ topic_trends = NoTrends
    /\ result = "pending" /\ second = NoSecond
    /\ metrics = <<>> /\ comprehensive_summary = <<>> /\ key_sentences = <<>>
    /\ themes = <<>>
    /\ network_insights = <<>> /\ visualization_data = <<>>
    /\ call_args = <<>>

SpecAnyMatrix == InitAnyMatrix /\ [][Graph]_vars

\* ------------------------------------------------------------------------
\* _generate_network_insights alone, with no topics and no central videos, on
\* the graphs of up to MaxNodes + 1 nodes (the graph without nodes among them;
\* a self-loop at the first node only) and lists of up to two clusters.
InsightsCall ==
    /\ pc = "call" /\ entry = "_generate_network_insights"
    /\ network_insights' = GenerateNetworkInsights(call_args.G, call_args.clusters)
    /\ pc' = "done" /\ result' = "ok"
    /\ UNCHANGED <<argVars, metrics, themes, comprehensive_summary, key_sentences,
                   visualization_data, vectorizer, netVars, evoVars, second, calls>>

\* the edges a graph on the first n ids can have
InsightEdges(n) ==
    LET ids == {IdNames[k] : k \in 1..n}
    IN {e \in SUBSET ids : Cardinality(e) = 2 \/ e = {IdNames[1]}}

InitInsights ==
    /\ entry = "_generate_network_insights"
    /\ videos = [isNone |-> TRUE, docs |-> <<>>]
    /\ \E n \in 0..(MaxNodes + 1) :
         \E es \in SUBSET InsightEdges(n) :
            \E c \in 0..2 :
               call_args =
                  [G |-> [nodes |-> [k \in 1..n |-> IdNames[k]], w |-> [e \in es |-> 5]],
                   clusters |-> [k \in 1..c |-> [id |-> k - 1, videos |-> <<>>, size |-> 0]],
                   central_videos |-> <<>>, topics |-> <<>>]
    /\ louvain = "missing"
    /\ pc = "call" /\ calls = NoCalls
    /\ vectorizer = Unfitted
    /\ transcripts = <<>> /\ video_ids = <<>> /\ similarity_matrix = <<>>
    /\ G = EmptyGraph /\ central_videos = <<>> /\ clusters = <<>>
    /\ video_topics = <<>> /\ topic_evolution = <<>> /\ topic_trends = NoTrends
    /\ result = "pending" /\ second = NoSecond
    /\ metrics = <<>> /\ comprehensive_summary = <<>> /\ key_sentences = <<>>
    /\ themes = <<>>
    /\ network_insights = <<>> /\ visualization_data = <<>>

SpecInsights == InitInsights /\ [][InsightsCall]_vars

\* ------------------------------------------------------------------------
\* One call of any of the three public entry points on a fresh analyzer.
InitEntryPoints == Init \/ InitSummary

NextEntryPoints == Next \/ NextSummary

SpecEntryPoints == InitEntryPoints /\ [][NextEntryPoints]_vars

\* ================================================================ properties
\* The call of the entry point has returned a result dictionary.
Returned == pc = "done" /\ result = "ok"

\* C1: the clusters build_content_network returns partition the nodes of the
\* graph it built: every node is among the videos of exactly one cluster, once,
\* and the clusters hold nothing but nodes -- also when documents lack their
\* id or repeat one, and with either clustering strategy.
ClustersPartitionNodes ==
    (entry = "build_content_network" /\ Returned) =>
        /\ \A v \in Nodes(G) :
             Cardinality({km \in {p \in (1..Len(clusters)) \X (1..MaxNodes) :
                                     p[2] <= Len(clusters[p[1]].videos)} :
                             clusters[km[1]].videos[km[2]] = v}) = 1
        /\ \A k \in 1..Len(clusters) : Range(clusters[k].videos) \subseteq Nodes(G)

NeverRaises == result # "raised"

InsufficientInput ==
    \/ entry = "build_content_network" /\ (IsEmptyArg(videos) \/ Len(videos.docs) = 1)
    \/ entry = "analyze_topic_evolution" /\ (videos.isNone \/ Len(videos.docs) = 0)

InsufficientInputIsError ==
    (InsufficientInput /\ pc # "call") =>
        /\ pc = "done" /\ result = "error"
        /\ vectorizer = Unfitted
        /\ transcripts = <<>> /\ video_ids = <<>> /\ similarity_matrix = <<>>
        /\ G = EmptyGraph /\ central_videos = <<>> /\ clusters = <<>>
        /\ video_topics = <<>> /\ topic_evolution = <<>> /\ topic_trends = NoTrends
        /\ second = NoSecond

\* a one-document list was given to build_content_network and the call returned
OneDocumentReturned ==
    /\ entry = "build_content_network" /\ ~videos.isNone /\ Len(videos.docs) = 1
    /\ pc = "done" /\ result = "error"

\* C2 as stated: once _create_graph has run, for every pair i < j the edge
\* between ids[i] and ids[j] exists exactly when matrix[i][j] is at least the
\* threshold, and its weight is matrix[i][j] -- also when ids repeat.
EdgesMatchMatrix ==
    pc # "graph" =>
        \A p \in IndexPairs(Len(video_ids)) :
            LET e == {video_ids[p[1]], video_ids[p[2]]}
            IN /\ e \in Edges(G) <=> similarity_matrix[p[1]][p[2]] >= similarity_threshold
               /\ e \in Edges(G) => G.w[e] = similarity_matrix[p[1]][p[2]]

\* C2: once _create_graph has run, every pair i < j whose matrix entry is at
\* least the threshold has an edge between ids[i] and ids[j]; every edge has
\* the weight matrix[i][j] of the last pair i < j, in loop order, that joins
\* its endpoints with an entry at least the threshold; and when the ids are
\* pairwise distinct the edge exists exactly for such pairs with exactly that
\* weight.
EdgesFromLastPair ==
    pc # "graph" =>
        LET n == Len(video_ids)
            Ends(p) == {video_ids[p[1]], video_ids[p[2]]}
            Passes(p) == similarity_matrix[p[1]][p[2]] >= similarity_threshold
            Later(q, p) == q[1] > p[1] \/ (q[1] = p[1] /\ q[2] > p[2])
        IN /\ \A p \in IndexPairs(n) : Passes(p) => Ends(p) \in Edges(G)
           /\ \A e \in Edges(G) : \E p \in IndexPairs(n) :
                 /\ Ends(p) = e /\ Passes(p)
                 /\ G.w[e] = similarity_matrix[p[1]][p[2]]
                 /\ \A q \in IndexPairs(n) : (Ends(q) = e /\ Passes(q)) => ~Later(q, p)
           /\ (\A p \in IndexPairs(n) : video_ids[p[1]] # video_ids[p[2]]) =>
                 \A p \in IndexPairs(n) :
                     /\ Ends(p) \in Edges(G) <=> Passes(p)
                     /\ Ends(p) \in Edges(G) => G.w[Ends(p)] = similarity_matrix[p[1]][p[2]]

\* _create_graph has run on ids that repeat, and two pairs with the same
\* endpoints both reach the threshold with different similarities
RepeatedPairGraphBuilt ==
    /\ entry = "_create_graph" /\ pc # "graph"
    /\ \E p, q \in IndexPairs(Len(video_ids)) :
         /\ p # q
         /\ {video_ids[p[1]], video_ids[p[2]]} = {video_ids[q[1]], video_ids[q[2]]}
         /\ similarity_matrix[p[1]][p[2]] >= similarity_threshold
         /\ similarity_matrix[q[1]][q[2]] >= similarity_threshold
         /\ similarity_matrix[p[1]][p[2]] # similarity_matrix[q[1]][q[2]]

\* C9: _identify_central_videos returns the three nodes of highest
\* combined_score (all nodes of a graph with fewer than three), in
\* non-increasing order of combined_score, and no node left out scores higher
\* than a returned one.
CentralVideosAreTopThree ==
    pc \notin {"graph", "metrics", "central"} =>
        LET k == Len(central_videos)
            returned == {central_videos[i].id : i \in 1..k}
        IN /\ k = Min(3, NumberOfNodes(G))
           /\ returned \subseteq Nodes(G) /\ Cardinality(returned) = k
           /\ \A i \in 1..k :
                 central_videos[i].combined_score = CombinedScore(G, central_videos[i].id)
           /\ \A i, j \in 1..k :
                 i < j => central_videos[i].combined_score >= central_videos[j].combined_score
           /\ \A v \in Nodes(G) \ returned : \A i \in 1..k :
                 CombinedScore(G, v) <= central_videos[i].combined_score

\* C10: a topic with at least three appearances is classified by the
\* least-squares slope of its confidences against the appearance index
\* 0..k-1: trending exactly when the slope exceeds 0.5, declining exactly when
\* it is below -0.5, stable otherwise (so a slope of exactly 0.5 or -0.5 is
\* stable); confidences 10,30,50,70,90 are trending, 90,70,50,30,10 declining
\* and 50,50,50,50 stable.  The slope is cov(x, y) / var(x), both scaled by n^2.
TrendsFollowSlope ==
    (entry = "analyze_topic_evolution" /\ Returned) =>
        \A topic \in DOMAIN topic_evolution :
            LET y == [i \in 1..Len(topic_evolution[topic]) |->
                         topic_evolution[topic][i].confidence]
                n == Len(y)
                sx == SumSeq([i \in 1..n |-> i - 1])
                sy == SumSeq(y)
                cov == SumSeq([i \in 1..n |-> (n * (i - 1) - sx) * (n * y[i] - sy)])
                var == SumSeq([i \in 1..n |-> (n * (i - 1) - sx) * (n * (i - 1) - sx)])
                In(list) == topic \in Range(list)
            IN n >= 3 =>
                 /\ In(topic_trends.trending) <=> 2 * cov > var
                 /\ In(topic_trends.declining) <=> 2 * cov < 0 - var
                 /\ In(topic_trends.stable) <=> (2 * cov <= var /\ 2 * cov >= 0 - var)
                 /\ y = <<10, 30, 50, 70, 90>> => In(topic_trends.trending)
                 /\ y = <<90, 70, 50, 30, 10>> => In(topic_trends.declining)
                 /\ y = <<50, 50, 50, 50>> => In(topic_trends.stable)

\* analyze_topic_evolution returned for a topic seen three times whose
\* confidences 50, 50, 51 have slope exactly 0.5, and the topic is stable
SlopeOneHalfIsStable ==
    /\ entry = "analyze_topic_evolution" /\ Returned
    /\ "x" \in DOMAIN topic_evolution
    /\ [i \in 1..Len(topic_evolution["x"]) |-> topic_evolution["x"][i].confidence]
           = <<50, 50, 51>>
    /\ "x" \in Range(topic_trends.stable)

TwoAppearancesAreStable ==
    (entry = "analyze_topic_evolution" /\ Returned) =>
        \A topic \in DOMAIN topic_evolution :
            LET In(list) == topic \in Range(list)
                k == Len(topic_evolution[topic])
            IN /\ k = 2 => /\ In(topic_trends.stable)
                           /\ ~In(topic_trends.trending) /\ ~In(topic_trends.declining)
               /\ k < 2 => /\ ~In(topic_trends.stable)
                           /\ ~In(topic_trends.trending) /\ ~In(topic_trends.declining)

\* analyze_topic_evolution returned for a topic seen twice, with confidence
\* 10 and then 90, and the topic is stable
SteepPairIsStable ==
    /\ entry = "analyze_topic_evolution" /\ Returned
    /\ "x" \in DOMAIN topic_evolution
    /\ [i \in 1..Len(topic_evolution["x"]) |-> topic_evolution["x"][i].confidence]
           = <<10, 90>>
    /\ "x" \in Range(topic_trends.stable)

\* C12: in the result of analyze_topic_evolution the timeline of every topic
\* is in ascending order of published_at: of two consecutive entries the first
\* one's published_at is at most the second's, whatever the order of the
\* documents in the list given.
TimelinesAscend ==
    (entry = "analyze_topic_evolution" /\ Returned) =>
        \A topic \in DOMAIN topic_evolution :
            \A i \in 1..(Len(topic_evolution[topic]) - 1) :
                topic_evolution[topic][i].published_at
                    <= topic_evolution[topic][i + 1].published_at

\* analyze_topic_evolution returned for a list in which a document comes
\* before one published earlier, both with the topic
LaterDocumentGivenFirst ==
    /\ entry = "analyze_topic_evolution" /\ Returned
    /\ "x" \in DOMAIN topic_evolution
    /\ Len(topic_evolution["x"]) = Len(videos.docs)
    /\ \E i \in 1..(Len(videos.docs) - 1) :
         GetPublishedAt(videos.docs[i]) > GetPublishedAt(videos.docs[i + 1])

\* C13: for every non-empty list the result of analyze_topic_evolution has
\* topic_evolution and topic_trends, and topic_trends has the three keys
\* trending, declining and stable, also when no document yields a topic.
TrendsHaveThreeKeys ==
    (entry = "analyze_topic_evolution" /\ Returned) => ~topic_trends.empty

\* C14: for N >= 2 documents whose transcripts are all empty or missing,
\* build_content_network computes the all-zero N x N matrix and returns a
\* network with no edge, density 0 and N clusters of one document each.
AllEmptyGivesSingletons ==
    (/\ entry = "build_content_network" /\ Returned
     /\ \A i \in 1..Len(videos.docs) :
           videos.docs[i].transcript.k = "absent") =>
        LET n == Len(videos.docs)
        IN /\ Len(similarity_matrix) = n
           /\ \A i, j \in 1..n : similarity_matrix[i][j] = 0
           /\ NumberOfEdges(G) = 0
           /\ metrics["edge_count"].num = 0 /\ metrics["density"].num = 0
           /\ Len(clusters) = n
           /\ \A k \in 1..Len(clusters) : clusters[k].size = 1 /\ Len(clusters[k].videos) = 1

\* C15: when only some of the N texts are empty, the matrix of
\* _calculate_similarity_matrix is N x N, every entry in the row and in the
\* column of an empty text is 0 (its diagonal entry too), and the entry of two
\* non-empty texts is the similarity the function computes for them on the
\* non-empty texts alone, placed at their original indices.
EmptyTextsAreZeroRows ==
    (/\ entry = "_calculate_similarity_matrix" /\ pc # "similarity"
     /\ \E i \in 1..Len(transcripts) : transcripts[i] = <<>>
     /\ \E i \in 1..Len(transcripts) : transcripts[i] # <<>>) =>
        LET n == Len(transcripts)
            Filled(t) == t # <<>>
            alone == CalculateSimilarityMatrix(SelectSeq(transcripts, Filled), Unfitted).matrix
            Before(i) == Cardinality({k \in 1..i : transcripts[k] # <<>>})
        IN /\ Len(similarity_matrix) = n
           /\ \A i \in 1..n : Len(similarity_matrix[i]) = n
           /\ \A i, j \in 1..n :
                IF transcripts[i] = <<>> \/ transcripts[j] = <<>>
                THEN similarity_matrix[i][j] = 0
                ELSE similarity_matrix[i][j] = alone[Before(i)][Before(j)]

\* the function has run on texts with an empty one before two non-empty ones
\* that are similar
EmptyTextAmongSimilar ==
    /\ entry = "_calculate_similarity_matrix" /\ pc # "similarity"
    /\ \E e, i, j \in 1..Len(transcripts) :
         /\ e < i /\ i < j /\ transcripts[e] = <<>>
         /\ similarity_matrix[i][j] > 0 /\ similarity_matrix[i][j] < 10

\* C16: when the vectorization inside _calculate_similarity_matrix fails, the
\* function returns the all-zero N x N matrix, nothing propagates, and
\* build_content_network returns its result, with no edge.
FailedFitGivesZeroMatrix ==
    (/\ entry = "build_content_network"
     /\ pc \notin {"call", "extract", "similarity"} /\ result # "error" /\ result # "raised"
     /\ ValidIndices(transcripts) # {}
     /\ ~VectorizerFit(ValidTexts(transcripts)).ok) =>
        /\ Len(similarity_matrix) = Len(transcripts)
        /\ \A i, j \in 1..Len(transcripts) : similarity_matrix[i][j] = 0
        /\ pc \notin {"graph"} => NumberOfEdges(G) = 0
        /\ pc = "done" => result = "ok" /\ metrics["edge_count"].num = 0

\* build_content_network returned for three non-empty transcripts, all the
\* same, whose every term is in all documents and so pruned by max_df
DegenerateVocabularyReturned ==
    /\ entry = "build_content_network" /\ Returned
    /\ Len(transcripts) = 3
    /\ \A i \in 1..3 : transcripts[i] = <<"t2">>
    /\ ~VectorizerFit(transcripts).ok

\* C17: when the Louvain detection is unavailable or fails with any error,
\* _identify_content_clusters falls back to the connected components: each
\* component is exactly one cluster; and for a graph with nodes the cluster
\* list is never empty.
FallbackClustersAreComponents ==
    pc \in {"return", "done"} =>
        /\ louvain # "available" =>
              LET comps == ConnectedComponents(G)
              IN /\ Len(clusters) = Len(comps)
                 /\ \A c \in 1..Len(comps) :
                       Cardinality({k \in 1..Len(clusters) :
                                       Range(clusters[k].videos) = comps[c]}) = 1
        /\ NumberOfNodes(G) > 0 => clusters # <<>>

\* C18: _calculate_network_metrics returns every metric key for every graph,
\* the graphs of no node and of one node too, and a metric that is undefined
\* there (density, clustering and the centralities of fewer than two nodes) is 0.
MetricsHaveEveryKey ==
    (entry = "_calculate_network_metrics" /\ pc # "metrics") =>
        /\ {"node_count", "edge_count", "density", "average_clustering",
            "component_count", "max_degree_centrality", "avg_degree_centrality",
            "max_betweenness_centrality"} \subseteq DOMAIN metrics
        /\ NumberOfNodes(G) <= 1 =>
              \A k \in DOMAIN metrics \ {"node_count", "edge_count", "component_count"} :
                  metrics[k].num = 0

\* C20: the cluster list of _identify_content_clusters is sorted by size
\* descending, every cluster is non-empty, and a cluster's size is the number
\* of member entries it carries.
ClustersSortedBySize ==
    pc \in {"return", "done"} =>
        /\ \A k \in 1..(Len(clusters) - 1) : clusters[k].size >= clusters[k + 1].size
        /\ \A k \in 1..Len(clusters) :
              clusters[k].size >= 1 /\ clusters[k].size = Len(clusters[k].videos)

\* the clusters were computed and a larger cluster stands before a smaller one
\* that was formed first (the components are numbered in node order)
LargerClusterMovedFirst ==
    /\ pc \in {"return", "done"} /\ louvain = "missing"
    /\ Len(clusters) >= 2
    /\ clusters[1].size > clusters[2].size
    /\ clusters[1].id > clusters[2].id

\* C19: generate_comprehensive_summary returns a plain message without any
\* section header when the list is empty or no document has a summary with a
\* short_summary; in every other case the text has the headers Overview, Key
\* Themes, Main Points and Comparative Insights, each exactly once and in that
\* order, with at most 5 theme lines and at most 7 main-point lines.
SummaryHasItsSections ==
    (entry = "generate_comprehensive_summary" /\ pc = "done") =>
        LET text == comprehensive_summary
            At(h) == {i \in 1..Len(text) : text[i] = SectionHeaders[h]}
            pos(h) == CHOOSE i \in At(h) : TRUE
            Bullets(lo, hi) ==
                {i \in (lo + 1)..(hi - 1) : text[i] # <<>> /\ text[i][1] = "- "}
            none == \/ IsEmptyArg(videos)
                    \/ \A i \in 1..Len(videos.docs) :
                          ~(/\ videos.docs[i].summary.k = "dict"
                            /\ videos.docs[i].summary.short_summary # <<>>)
        IN /\ result = "ok"
           /\ IF none
              THEN Len(text) = 1 /\ \A h \in 1..4 : At(h) = {}
              ELSE /\ \A h \in 1..4 : Cardinality(At(h)) = 1
                   /\ \A h \in 1..3 : pos(h) < pos(h + 1)
                   /\ Cardinality(Bullets(pos(2), pos(3))) <= 5
                   /\ Cardinality(Bullets(pos(3), pos(4))) <= 7

\* C21: no public entry point modifies its input: no step of
\* build_content_network, analyze_topic_evolution or
\* generate_comprehensive_summary changes the caller's list, its order, or any
\* document of it (its summary and topics included).
InputIsNeverModified == [][videos' = videos]_vars

\* analyze_topic_evolution has returned for a list that was not given in the
\* order of published_at
UnorderedListReturned ==
    /\ entry = "analyze_topic_evolution" /\ Returned
    /\ SortedVideos(videos.docs) # videos.docs
    /\ topic_evolution # <<>>

\* the topic evolution of the call has been built
Tracked == entry = "analyze_topic_evolution" /\ pc \in {"trends", "return", "done"}
           /\ result # "error"

\* C22: for every topic name _track_topic_evolution collected, the timeline
\* has an entry for exactly the documents whose topic list holds that name (as
\* a bare string or as the name of a topic object), in their order, and the
\* entry's confidence is that of the first such topic of the document, 50 when
\* that topic is a bare string or has no confidence.
TimelineFollowsDocuments ==
    Tracked =>
        \A topic \in DOMAIN topic_evolution :
            LET timeline == topic_evolution[topic]
                Names(i) == {k \in 1..Len(video_topics[i].topics) :
                                video_topics[i].topics[k].name = topic}
                with == {i \in 1..Len(video_topics) : Names(i) # {}}
                Nth(k) == CHOOSE i \in with : Cardinality({j \in with : j < i}) = k - 1
                first(i) == video_topics[i].topics[CHOOSE k \in Names(i) :
                                                     \A m \in Names(i) : k <= m]
            IN /\ Len(timeline) = Cardinality(with)
               /\ \A k \in 1..Len(timeline) :
                     /\ timeline[k].video_id = video_topics[Nth(k)].id
                     /\ timeline[k].confidence =
                           IF first(Nth(k)).shape = "str" \/ first(Nth(k)).confidence = ConfNoKey
                           THEN 50 ELSE first(Nth(k)).confidence

\* a timeline skips a document without the topic and takes 50 from a document
\* that names the topic first as a bare string and then with confidence 90
FirstOfTwoMatchesTaken ==
    /\ Tracked /\ "x" \in DOMAIN topic_evolution
    /\ Len(topic_evolution["x"]) < Len(video_topics)
    /\ \E i \in 1..Len(video_topics) : \E k \in 1..Len(topic_evolution["x"]) :
          /\ video_topics[i].topics = <<TopicStr("x"), TopicDict("x", 90)>>
          /\ topic_evolution["x"][k].video_id = video_topics[i].id
          /\ topic_evolution["x"][k].confidence = 50

\* C28: in every result of _identify_topic_trends for a non-empty
\* topic_evolution, trending, declining and stable are pairwise disjoint, hold
\* no topic twice, and together hold exactly the topics of at least 2
\* appearances.
TrendListsPartitionTopics ==
    (entry = "analyze_topic_evolution" /\ Returned /\ DOMAIN topic_evolution # {}) =>
        LET lists == <<topic_trends.trending, topic_trends.declining, topic_trends.stable>>
        IN /\ ~topic_trends.empty
           /\ \A a \in 1..3 : \A b \in 1..3 :
                 a # b => Range(lists[a]) \cap Range(lists[b]) = {}
           /\ \A a \in 1..3 : Cardinality(Range(lists[a])) = Len(lists[a])
           /\ UNION {Range(lists[a]) : a \in 1..3}
                 = {t \in DOMAIN topic_evolution : Len(topic_evolution[t]) >= 2}

\* a result with a declining topic and a topic of one appearance in no list
DecliningAndSkipped ==
    /\ entry = "analyze_topic_evolution" /\ Returned
    /\ topic_trends.declining = <<"x">>
    /\ "y" \in DOMAIN topic_evolution /\ Len(topic_evolution["y"]) = 1

\* C29: in every topic_evolution built by _track_topic_evolution, every
\* timeline is non-empty and holds at most one entry per document, also for a
\* document that lists the topic several times, so no timeline is longer than
\* the document list.
OneEntryPerDocument ==
    Tracked =>
        \A topic \in DOMAIN topic_evolution :
            LET timeline == topic_evolution[topic]
            IN /\ Len(timeline) >= 1
               /\ Len(timeline) <= Len(video_topics)
               /\ \A i \in 1..Len(video_topics) :
                     Cardinality({k \in 1..Len(timeline) :
                                    timeline[k].video_id = video_topics[i].id}) <= 1

\* every document of a list of two or more names the topic, one of them three
\* topics with the name twice, and the timeline has one entry per document
RepeatedNameOneEntry ==
    /\ Tracked /\ "x" \in DOMAIN topic_evolution
    /\ Len(video_topics) >= 2
    /\ Len(topic_evolution["x"]) = Len(video_topics)
    /\ \E i \in 1..Len(video_topics) : Len(video_topics[i].topics) = 3

\* C23: _extract_key_sentences(text, N) returns a subsequence of the S
\* sentences (order kept, none repeated) of length min(N, S): when S > N and
\* the vectorization succeeds, no sentence left out has a strictly higher score
\* (the sum of its similarities to all others) than a returned one; when
\* S <= N or the vectorization fails, the first min(N, S) sentences.
KeySentencesAreTopN ==
    (entry = "_extract_key_sentences" /\ pc = "done") =>
        LET N == call_args.num_sentences
            sentences == IF call_args.text = <<>> THEN <<>>
                         ELSE SplitSentences(call_args.text)
            S == Len(sentences)
            fit == SentenceSimilarity(sentences)
            score(i) == SumFn(fit.matrix[i], (1..S) \ {i})
            Picks(t) == LET In(i) == i \in t
                            idx == SelectSeq([i \in 1..S |-> i], In)
                        IN [k \in 1..Len(idx) |-> sentences[idx[k]]]
        IN /\ Len(key_sentences) = Min(N, S)
           /\ IF S > N /\ fit.ok
              THEN \E t \in SUBSET (1..S) :
                      /\ key_sentences = Picks(t)
                      /\ \A i \in t : \A j \in (1..S) \ t : score(j) <= score(i)
              ELSE key_sentences = SubSeq(sentences, 1, Min(N, S))

\* generate_comprehensive_summary has returned a text with its sections
Summarized ==
    /\ entry = "generate_comprehensive_summary" /\ Returned
    /\ Len(comprehensive_summary) > 1

\* the documents whose topic list holds the name
DocumentsNaming(name) ==
    {i \in 1..Len(videos.docs) :
        /\ videos.docs[i].summary.k = "dict"
        /\ \E k \in 1..Len(videos.docs[i].summary.topics) :
              videos.docs[i].summary.topics[k].name = name}

\* C24: the Comparative Insights report a topic as common across multiple
\* videos only if it is in the topic lists of at least 2 distinct documents; a
\* topic that one document lists several times and no other document lists is
\* not reported.
CommonTopicsAreShared ==
    Summarized =>
        \A i \in 1..Len(comprehensive_summary) :
            LET line == comprehensive_summary[i]
            IN (line # <<>>
                /\ line[1] = "Common topics that appear across multiple videos include ")
               => \A k \in 2..Len(line) :
                     DocumentsNaming(line[k]) # {}
                        => Cardinality(DocumentsNaming(line[k])) >= 2

\* C30: for every theme of _extract_themes_across_videos, count is the number
\* of documents in which the topic appears, so it never exceeds the number of
\* documents and prevalence never exceeds 100, also when a document lists a
\* topic more than once; the themes are in non-increasing order of count.
ThemeCountsAreDocuments ==
    Summarized =>
        /\ \A k \in 1..Len(themes) :
              /\ themes[k].count = Cardinality(DocumentsNaming(themes[k].name))
              /\ themes[k].count <= Len(videos.docs)
              /\ themes[k].prevalence.num <= 100 * themes[k].prevalence.den
        /\ \A k \in 1..(Len(themes) - 1) : themes[k].count >= themes[k + 1].count

\* how often the sentence is among the insights
InsightCount(sentence) ==
    Cardinality({i \in 1..Len(network_insights) : network_insights[i] = sentence})

DenseSentence ==
    <<"The content network is very densely connected, indicating strongly related content.">>
ModerateSentence ==
    <<"The content network shows moderate connectivity between videos.">>
SparseSentence ==
    <<"The content network is sparsely connected, suggesting diverse or loosely related content.">>
SingularSentence ==
    <<"All videos form a single coherent content cluster.">>
PluralSentence(k) ==
    <<"The content is organized into ", ToString(k), " distinct topic clusters.">>

InsightsReturned == entry = "_generate_network_insights" /\ pc = "done"

\* C25: for a graph with at least one node the insights hold exactly one of the
\* three density sentences, with density 2|E| / (N(N - 1)) and 0 for N <= 1:
\* the dense one iff density > 0.7, the moderate one iff 0.3 < density <= 0.7,
\* the sparse one iff density <= 0.3; and they hold the plural cluster sentence
\* iff there is more than one cluster, the singular one iff there is exactly one.
OneDensitySentence ==
    (InsightsReturned /\ NumberOfNodes(call_args.G) >= 1) =>
        LET N == NumberOfNodes(call_args.G)
            E == NumberOfEdges(call_args.G)
            num == IF N <= 1 THEN 0 ELSE 2 * E
            den == IF N <= 1 THEN 1 ELSE N * (N - 1)
            k == Len(call_args.clusters)
        IN /\ InsightCount(DenseSentence) + InsightCount(ModerateSentence)
                 + InsightCount(SparseSentence) = 1
           /\ InsightCount(DenseSentence) = 1 <=> 10 * num > 7 * den
           /\ InsightCount(ModerateSentence) = 1
                 <=> (10 * num > 3 * den /\ 10 * num <= 7 * den)
           /\ InsightCount(SparseSentence) = 1 <=> 10 * num <= 3 * den
           /\ InsightCount(PluralSentence(k)) = (IF k > 1 THEN 1 ELSE 0)
           /\ InsightCount(SingularSentence) = (IF k = 1 THEN 1 ELSE 0)
           /\ \A i \in 1..Len(network_insights) :
                 network_insights[i][1] = "The content is organized into "
                    => network_insights[i] = PluralSentence(k)

\* a graph of density 0.7 exactly got the moderate sentence, and two clusters
\* the plural one
ModerateAtSevenTenths ==
    /\ InsightsReturned
    /\ 10 * 2 * NumberOfEdges(call_args.G)
          = 7 * NumberOfNodes(call_args.G) * (NumberOfNodes(call_args.G) - 1)
    /\ NumberOfEdges(call_args.G) > 0
    /\ InsightCount(ModerateSentence) = 1
    /\ InsightCount(PluralSentence(2)) = 1

\* C27: the visualization_data build_content_network returns mirrors the graph:
\* one node entry for every graph node, one edge entry for every graph edge
\* with the edge's weight as value, and the source and the target of every edge
\* entry are ids of node entries -- also when documents lack their id.
VisualizationMirrorsGraph ==
    (entry = "build_content_network" /\ Returned) =>
        LET nodes == visualization_data.nodes
            edges == visualization_data.edges
            node_ids == {nodes[k].id : k \in 1..Len(nodes)}
        IN /\ Len(nodes) = NumberOfNodes(G)
           /\ node_ids = Range(G.nodes)
           /\ Cardinality(edges) = NumberOfEdges(G)
           /\ \A e \in Edges(G) :
                 \E x \in edges : {x.source, x.target} = e /\ x.value = G.w[e]
           /\ \A x \in edges : x.source \in node_ids /\ x.target \in node_ids

\* the matrix with 0 on and below the diagonal
UpperOnly(matrix) ==
    [i \in DOMAIN matrix |-> [j \in DOMAIN matrix |-> IF i < j THEN matrix[i][j] ELSE 0]]

\* the matrices that differ from the matrix in one entry on or below the diagonal
OneEntryChanged(matrix) ==
    {[matrix EXCEPT ![p[1]][p[2]] = x] :
        p \in {q \in (DOMAIN matrix) \X (DOMAIN matrix) : q[1] >= q[2]}, x \in {0, 2, 7, 10}}

\* C26: the graph of _create_graph depends only on the entries above the
\* diagonal: a matrix with the same entries above the diagonal and others on
\* or below it gives the same nodes, edges and weights, so no self-similarity
\* and no entry matrix[j][i] with i < j creates or changes an edge.
GraphFromUpperTriangle ==
    (entry = "_create_graph" /\ pc # "graph") =>
        \A other \in {UpperOnly(similarity_matrix)} \cup OneEntryChanged(similarity_matrix) :
            CreateGraph(other, video_ids) = G

\* distinct ids, a diagonal and a lower triangle of entries above the threshold,
\* an upper triangle with a pair below it: the pair has no edge, no node a loop
LowerTriangleIgnored ==
    /\ entry = "_create_graph" /\ pc # "graph"
    /\ \A p \in IndexPairs(Len(video_ids)) :
          /\ video_ids[p[1]] # video_ids[p[2]]
          /\ similarity_matrix[p[2]][p[1]] >= similarity_threshold
    /\ \A i \in 1..Len(video_ids) :
          similarity_matrix[i][i] >= similarity_threshold /\ {video_ids[i]} \notin Edges(G)
    /\ \E p \in IndexPairs(Len(video_ids)) :
          /\ similarity_matrix[p[1]][p[2]] < similarity_threshold
          /\ {video_ids[p[1]], video_ids[p[2]]} \notin Edges(G)
    /\ Edges(G) # {}
====
